---- MODULE Spec2Model ----
(***************************************************************************)
(* Model of the resolution core of the agent router:                       *)
(*   - common_logic/business_router.py : phone identity matching, contact  *)
(*     lookup, funnel derivation, playbook activation, session parameters  *)
(*     and the agent call (execute_business_routing);                      *)
(*   - common_logic/rag_service.py : RagSearchService.resolve_store_target *)
(*     and the activation coercion it shares with the router, and          *)
(*     run_query with its key verification;                                *)
(*   - main.py : webhook_handler and pubsub_handler, with the handlers of  *)
(*     handler/ and the routers of router/.                                *)
(*                                                                         *)
(* Python values are tagged records [t |-> tag, v |-> payload]; Python     *)
(* str values are TLA+ strings, read character by character with SubSeq.   *)
(* A float payload n stands for the float n/10.                            *)
(***************************************************************************)
EXTENDS Integers, Sequences, FiniteSets, TLC

VARIABLES
    \* ---- the document store (Firestore) ----
    tenant_id,      \* the tenant the call names
    tenants,        \* the 'tenants' collection: tenant id -> document
    contacts,       \* tenants/{tenant_id}/contacts: document key -> contact data
    \* ---- RagSearchService.resolve_store_target ----
    playbook_name,  \* selector (Optional[str])
    rag_identifier, \* selector (Optional[str]), the "alias"
    explicit_data_store_id, \* selector (Optional[str])
    ragPc,          \* "idle" | "call" | "done"
    ragOutcome,     \* how the call ended and what it returned
    byIdOutcome,    \* how a second call ended that passes the first call's
                    \* target.data_store_id as explicit_data_store_id
    \* ---- execute_business_routing ----
    user_id,        \* the raw identity of the sender
    AGENT_ID,       \* DIALOGFLOW_AGENT_ID of the environment ("" when unset)
    pc,             \* where the invocation stands
    variations,     \* the candidate keys of _find_contact_by_phone, in order
    idx,            \* 1-based position of _find_contact_by_phone's loop
    probes,         \* the contact probes issued so far: [key, result]
    found,          \* what _find_contact_by_phone returned
    status,         \* the contact's status (FASE 3)
    funnel_id,      \* FASE 4
    playbook_config_to_use, \* FASE 5
    session_params, \* FASE 7
    struct_params,  \* FASE 12
    agentCalls,     \* the detect_intent requests sent: their parameters
    result,         \* what execute_business_routing returned
    stopped,        \* why the invocation ended
    trace,          \* the stages passed, in order
    \* ---- activation coercion on its own ----
    boolIn,         \* the value handed to _to_bool / _is_truthy
    boolOut,        \* what each of the two returned, <<>> until computed
    \* ---- phone identity matching on its own ----
    phoneIn,        \* the string handed to the two phone functions
    phoneOut,       \* what they returned, <<>> until computed
    \* ---- RagSearchService.run_query ----
    api_key,        \* the key the caller supplied (Optional[str])
    keyConfig,      \* RAG_API_KEY, RAG_API_SECRET_NAME, the secret behind it
    _cached_api_key, \* the key the service has cached ("" when none)
    query,          \* the query text
    queryPc,        \* "idle" | "verify" | "resolve" | "search" | "done"
    searchCalls,    \* the requests sent to the search client
    queryOutcome,   \* how run_query ended and in which step
    \* ---- webhook_handler (POST /webhook/{platform}) ----
    platform,       \* the path parameter
    signature,      \* the X-Hub-Signature-256 header (Optional[str])
    body,           \* the raw request body
    appSecret,      \* the app secret in the secret manager, if readable
    secret,         \* what get_meta_app_secret returned, <<>> until fetched
    webhookPc,      \* "idle" | "handler" | "signature" | "secret" | "verify"
                    \* | "publish" | "done"
    webhookStatus,  \* the HTTP status answered, 0 until answered
    published,      \* the messages published to the queue: [payload, platform]
    \* ---- pubsub_handler (POST /pubsub) ----
    request_json,   \* the push request body
    parsed_data,    \* what parse_payload returned, <<>> until parsed
    channel_mapping, \* what get_channel_mapping returned
    response_text,  \* what execute_business_routing returned
    access_token,   \* what get_secret_value returned
    pushPc,         \* "idle" | "unpack" | "parse" | "channel" | "route"
                    \* | "token" | "send" | "respond" | "done"
    pushStatus,     \* the HTTP status answered, 0 until answered
    pushFailure,    \* what failed inside the handler ("" when nothing did)
    sent            \* the send_message calls made

storeVars == <<tenant_id, tenants, contacts>>
ragVars == <<playbook_name, rag_identifier, explicit_data_store_id, ragPc,
             ragOutcome, byIdOutcome>>
routeVars == <<user_id, AGENT_ID, pc, variations, idx, probes, found, status,
               funnel_id,
               playbook_config_to_use, session_params, struct_params,
               agentCalls, result, stopped, trace>>
boolVars == <<boolIn, boolOut>>
phoneVars == <<phoneIn, phoneOut>>
queryVars == <<api_key, keyConfig, _cached_api_key, query, queryPc,
               searchCalls, queryOutcome>>
webhookVars == <<platform, signature, body, appSecret, secret, webhookPc,
                 webhookStatus, published>>
pushVars == <<request_json, parsed_data, channel_mapping, response_text,
              access_token, pushPc, pushStatus, pushFailure, sent>>
edgeVars == <<queryVars, webhookVars, pushVars>>
vars == <<storeVars, ragVars, routeVars, boolVars, phoneVars, edgeVars>>

-----------------------------------------------------------------------------
(* Python values *)

VNone == [t |-> "none", v |-> 0]
VBool(b) == [t |-> "bool", v |-> b]
VInt(n) == [t |-> "int", v |-> n]
VFloat(n) == [t |-> "float", v |-> n]
VStr(s) == [t |-> "str", v |-> s]
VDict(f) == [t |-> "dict", v |-> f]
VList(q) == [t |-> "list", v |-> q]

EmptyDict == [k \in {} |-> VNone]

\* bool(value): Python truth value testing
Truthy(value) ==
    CASE value.t = "none" -> FALSE
      [] value.t = "bool" -> value.v
      [] value.t \in {"int", "float"} -> value.v # 0
      [] value.t = "str" -> value.v # ""
      [] value.t = "dict" -> DOMAIN value.v # {}
      [] value.t = "list" -> Len(value.v) > 0
      [] OTHER -> TRUE

\* a or b
PyOr(a, b) == IF Truthy(a) THEN a ELSE b

\* d.get(key, default) on a dict payload
DictGet(d, key, default) == IF key \in DOMAIN d THEN d[key] ELSE default

-----------------------------------------------------------------------------
(* Python str operations *)

UpperChars == "ABCDEFGHIJKLMNOPQRSTUVWXYZ"
LowerChars == "abcdefghijklmnopqrstuvwxyz"

CharAt(s, i) == SubSeq(s, i, i)

IsSpace(c) == c \in {" ", "\t", "\n", "\r"}

\* the lowercase letter of each uppercase letter
LowerOf ==
    [c \in {CharAt(UpperChars, i) : i \in 1..Len(UpperChars)} |->
       CharAt(LowerChars, CHOOSE i \in 1..Len(UpperChars) : CharAt(UpperChars, i) = c)]

LowerChar(c) == IF c \in DOMAIN LowerOf THEN LowerOf[c] ELSE c

RECURSIVE StrLower(_)
\* str.lower()
StrLower(s) ==
    IF s = "" THEN ""
    ELSE LowerChar(CharAt(s, 1)) \o StrLower(SubSeq(s, 2, Len(s)))

RECURSIVE LStripSpace(_)
LStripSpace(s) ==
    IF s # "" /\ IsSpace(CharAt(s, 1))
    THEN LStripSpace(SubSeq(s, 2, Len(s)))
    ELSE s

RECURSIVE RStripSpace(_)
RStripSpace(s) ==
    IF s # "" /\ IsSpace(CharAt(s, Len(s)))
    THEN RStripSpace(SubSeq(s, 1, Len(s) - 1))
    ELSE s

\* str.strip()
StrStrip(s) == RStripSpace(LStripSpace(s))

-----------------------------------------------------------------------------
(* Activation coercion *)

\* the string compared without lower()
_to_bool_case_sensitive(value) ==
    IF value.t = "bool" THEN value.v
    ELSE IF value.t \in {"int", "float"} THEN value.v # 0
    ELSE IF value.t = "str"
         THEN StrStrip(value.v) \in {"true", "1", "yes", "sim", "y", "on"}
    ELSE FALSE

\* business_router._to_bool
_to_bool(value) ==
    IF value.t = "bool" THEN value.v
    ELSE IF value.t \in {"int", "float"} THEN value.v # 0
    ELSE IF value.t = "str"
         THEN StrLower(StrStrip(value.v)) \in {"true", "1", "yes", "sim", "y", "on"}
    ELSE FALSE

\* RagSearchService._is_truthy
_is_truthy(value) ==
    IF value.t = "bool" THEN value.v
    ELSE IF value.t \in {"int", "float"} THEN value.v # 0
    ELSE IF value.t = "str"
         THEN StrLower(StrStrip(value.v)) \in {"true", "1", "yes", "y", "on", "sim"}
    ELSE FALSE

-----------------------------------------------------------------------------
(* Firestore documents.  A map field that is iterated (playbook_configs,   *)
(* rag_configs) is a sequence of items [k, v] with distinct keys, in the    *)
(* order items() yields them; an absent map field and an empty one are the  *)
(* same to every reader (.get(name, {}) / `or {}`), so both are <<>>.       *)

Keys(items) == {items[i].k : i \in DOMAIN items}

\* items.get(key): the value under key, None when absent
ItemsGet(items, key) ==
    IF key \in Keys(items)
    THEN items[CHOOSE i \in DOMAIN items : items[i].k = key].v
    ELSE VNone

\* Optional[str] arguments: None is <<>>, a string s is <<s>>
NoneStr == <<>>
SomeStr(s) == <<s>>
\* `if selector:` -- neither None nor the empty string
Given(sel) == sel # NoneStr /\ sel[1] # ""

-----------------------------------------------------------------------------
(* RagSearchService: lookup tables *)

\* self.default_location, self.default_project, self.default_collection
default_location == VStr("global")
default_project == VStr("proj")
default_collection == VStr("default_collection")

RagStoreTarget(data_store_id, location, project_id, collection_id) ==
    [data_store_id |-> data_store_id, location |-> location,
     project_id |-> project_id, collection_id |-> collection_id]

\* rag_id preferred to rag_datastore_id
PlaybookTargetOf_rag_id_first(playbook_cfg) ==
    IF playbook_cfg.t # "dict" THEN <<>>
    ELSE LET cfg == playbook_cfg.v
             data_store_id == PyOr(DictGet(cfg, "rag_id", VNone),
                                   DictGet(cfg, "rag_datastore_id", VNone))
         IN IF ~Truthy(data_store_id) THEN <<>>
            ELSE <<RagStoreTarget(
                     data_store_id,
                     PyOr(DictGet(cfg, "rag_location", VNone),
                          PyOr(DictGet(cfg, "rag_region", VNone), default_location)),
                     PyOr(DictGet(cfg, "rag_project_id", VNone), default_project),
                     PyOr(DictGet(cfg, "rag_collection_id", VNone), default_collection))>>

\* the target one playbook entry yields (the loop body of
\* _extract_targets_from_playbooks); <<>> when the entry is skipped
PlaybookTargetOf(playbook_cfg) ==
    IF playbook_cfg.t # "dict" THEN <<>>
    ELSE LET cfg == playbook_cfg.v
             data_store_id == PyOr(DictGet(cfg, "rag_datastore_id", VNone),
                                   DictGet(cfg, "rag_id", VNone))
         IN IF ~Truthy(data_store_id) THEN <<>>
            ELSE <<RagStoreTarget(
                     data_store_id,
                     PyOr(DictGet(cfg, "rag_location", VNone),
                          PyOr(DictGet(cfg, "rag_region", VNone), default_location)),
                     PyOr(DictGet(cfg, "rag_project_id", VNone), default_project),
                     PyOr(DictGet(cfg, "rag_collection_id", VNone), default_collection))>>

\* the target one rag_config entry yields (the loop body of
\* _extract_targets_from_rag_configs); <<>> when the entry is skipped
RagConfigTargetOf(rag_cfg) ==
    IF rag_cfg.t # "dict" THEN <<>>
    ELSE LET cfg == rag_cfg.v
             data_store_id == PyOr(DictGet(cfg, "data_store_id", VNone),
                                   DictGet(cfg, "rag_datastore_id", VNone))
         IN IF ~Truthy(data_store_id) THEN <<>>
            ELSE <<RagStoreTarget(
                     data_store_id,
                     PyOr(DictGet(cfg, "location", VNone),
                          PyOr(DictGet(cfg, "region", VNone), default_location)),
                     PyOr(DictGet(cfg, "project_id", VNone),
                          PyOr(DictGet(cfg, "rag_project_id", VNone), default_project)),
                     PyOr(DictGet(cfg, "collection_id", VNone),
                          PyOr(DictGet(cfg, "rag_collection_id", VNone),
                               default_collection)))>>

RECURSIVE ExtractItems(_, _, _)
\* the items [k |-> name, v |-> target] of the entries that yield a target,
\* in iteration order; which = "playbook" | "rag"
ExtractItems(items, which, i) ==
    IF i > Len(items) THEN <<>>
    ELSE LET got == IF which = "playbook" THEN PlaybookTargetOf(items[i].v)
                    ELSE RagConfigTargetOf(items[i].v)
         IN (IF got = <<>> THEN <<>> ELSE <<[k |-> items[i].k, v |-> got[1]]>>)
            \o ExtractItems(items, which, i + 1)

_extract_targets_from_playbooks(playbook_configs) ==
    ExtractItems(playbook_configs, "playbook", 1)

_extract_targets_from_rag_configs(rag_configs) ==
    ExtractItems(rag_configs, "rag", 1)

RECURSIVE UpdateAll(_, _, _)
\* d after d[item.k] = item.v for every item from index i on (dict.update);
\* d is a function from keys to targets
UpdateAll(d, items, i) ==
    IF i > Len(items) THEN d
    ELSE UpdateAll([k \in DOMAIN d \cup {items[i].k} |->
                       IF k = items[i].k THEN items[i].v ELSE d[k]],
                   items, i + 1)

RECURSIVE ByStoreId(_, _)
\* the items [k |-> target.data_store_id, v |-> target] of a list of targets
ByStoreId(items, i) ==
    IF i > Len(items) THEN <<>>
    ELSE <<[k |-> items[i].v.data_store_id.v, v |-> items[i].v]>>
         \o ByStoreId(items, i + 1)

\* allowed_targets of resolve_store_target: playbook names, then aliases,
\* then every target under its own data_store_id, later writes winning
AllowedTargets(playbook_targets, rag_targets) ==
    UpdateAll(
        UpdateAll(UpdateAll([k \in {} |-> 0], playbook_targets, 1), rag_targets, 1),
        ByStoreId(playbook_targets \o rag_targets, 1), 1)

-----------------------------------------------------------------------------
(* RagSearchService.resolve_store_target *)

\* how a call ends: kind is "target" or the exception class raised; target
\* is <<the RagStoreTarget returned>> or <<>>; by names the branch that
\* decided ("tenant", "explicit", "playbook", "alias", "none")
Returned(target, by) == [kind |-> "target", target |-> <<target>>, by |-> by]
Raised(exc, by) == [kind |-> exc, target |-> <<>>, by |-> by]
NoOutcome == [kind |-> "pending", target |-> <<>>, by |-> "none"]

\* the activation check left out
PlaybookInactive_unchecked(playbook_cfg) == FALSE

\* lines 371-383: the activation check of the playbook_name branch
PlaybookInactive(playbook_cfg) ==
    /\ Truthy(playbook_cfg)
    /\ ~_is_truthy(DictGet(playbook_cfg.v, "status", VBool(TRUE)))

\* an undeclared id trusted as a store of the default project
ResolveExplicit_trusting(allowed_targets, id) ==
    IF id \notin DOMAIN allowed_targets
    THEN Returned(RagStoreTarget(VStr(id), default_location, default_project,
                                 default_collection), "explicit")
    ELSE Returned(allowed_targets[id], "explicit")

\* lines 339-357
ResolveExplicit(allowed_targets, id) ==
    IF id \notin DOMAIN allowed_targets
    THEN Raised("RagUnauthorizedError", "explicit")
    ELSE Returned(allowed_targets[id], "explicit")

\* lines 359-394
ResolvePlaybook(playbook_configs, playbook_targets, name) ==
    IF name \notin Keys(playbook_targets)
    THEN Raised("RagNotFoundError", "playbook")
    ELSE IF PlaybookInactive(ItemsGet(playbook_configs, name))
    THEN Raised("RagConfigurationError", "playbook")
    ELSE Returned(ItemsGet(playbook_targets, name), "playbook")

\* an unknown alias reported as missing instead of unauthorized
ResolveAlias_notfound(allowed_targets, id) ==
    IF id \notin DOMAIN allowed_targets
    THEN Raised("RagNotFoundError", "alias")
    ELSE Returned(allowed_targets[id], "alias")

\* lines 396-417
ResolveAlias(allowed_targets, id) ==
    IF id \notin DOMAIN allowed_targets
    THEN Raised("RagUnauthorizedError", "alias")
    ELSE Returned(allowed_targets[id], "alias")

\* the explicit id falling back to the lower selectors when it is unknown
resolve_store_target_fallback(docs, tid, pb_name, rag_id, explicit_id) ==
    IF tid \notin DOMAIN docs
    THEN Raised("RagNotFoundError", "tenant")
    ELSE LET tenant_data == docs[tid]
             playbook_targets ==
                 _extract_targets_from_playbooks(tenant_data.playbook_configs)
             rag_targets == _extract_targets_from_rag_configs(tenant_data.rag_configs)
             allowed_targets == AllowedTargets(playbook_targets, rag_targets)
         IN IF Given(explicit_id) /\ explicit_id[1] \in DOMAIN allowed_targets
            THEN ResolveExplicit(allowed_targets, explicit_id[1])
            ELSE IF Given(pb_name)
            THEN ResolvePlaybook(tenant_data.playbook_configs, playbook_targets,
                                 pb_name[1])
            ELSE IF Given(rag_id)
            THEN ResolveAlias(allowed_targets, rag_id[1])
            ELSE IF Given(explicit_id)
            THEN ResolveExplicit(allowed_targets, explicit_id[1])
            ELSE Raised("RagConfigurationError", "none")

resolve_store_target(docs, tid, pb_name, rag_id, explicit_id) ==
    IF tid \notin DOMAIN docs
    THEN Raised("RagNotFoundError", "tenant")
    ELSE LET tenant_data == docs[tid]
             playbook_targets ==
                 _extract_targets_from_playbooks(tenant_data.playbook_configs)
             rag_targets == _extract_targets_from_rag_configs(tenant_data.rag_configs)
             allowed_targets == AllowedTargets(playbook_targets, rag_targets)
         IN IF Given(explicit_id)
            THEN ResolveExplicit(allowed_targets, explicit_id[1])
            ELSE IF Given(pb_name)
            THEN ResolvePlaybook(tenant_data.playbook_configs, playbook_targets,
                                 pb_name[1])
            ELSE IF Given(rag_id)
            THEN ResolveAlias(allowed_targets, rag_id[1])
            ELSE Raised("RagConfigurationError", "none")

-----------------------------------------------------------------------------
(* business_router: phone identity matching *)

\* s.startswith(prefix)
StartsWith(s, prefix) ==
    Len(s) >= Len(prefix) /\ SubSeq(s, 1, Len(prefix)) = prefix

RECURSIVE LStripChar(_, _)
\* s.lstrip(c) for a one-character c
LStripChar(s, c) ==
    IF s # "" /\ CharAt(s, 1) = c
    THEN LStripChar(SubSeq(s, 2, Len(s)), c)
    ELSE s

_normalize_phone_number(phone) == StrStrip(LStripChar(phone, "+"))

RECURSIVE Unique(_, _)
\* lines 130-136: the entries of list not in seen, first occurrences kept
Unique(list, seen) ==
    IF list = <<>> THEN <<>>
    ELSE IF Head(list) \in seen THEN Unique(Tail(list), seen)
    ELSE <<Head(list)>> \o Unique(Tail(list), seen \cup {Head(list)})

\* the ninth digit put before the area code instead of after it
_generate_phone_variations_ninth_misplaced(phone) ==
    LET base == <<phone, "+" \o phone>>
        with_9th == "559" \o SubSeq(phone, 3, Len(phone))
        without_9th == "55" \o SubSeq(phone, 3, 4) \o SubSeq(phone, 6, Len(phone))
        brazil ==
            IF StartsWith(phone, "55") /\ Len(phone) = 12
            THEN <<with_9th, "+" \o with_9th>>
            ELSE IF StartsWith(phone, "55") /\ Len(phone) = 13
                    /\ CharAt(phone, 5) = "9"
            THEN <<without_9th, "+" \o without_9th>>
            ELSE <<>>
    IN Unique(base \o brazil, {})

\* the character at index 4 of a 13-character key removed whatever it is
_generate_phone_variations_any_ninth(phone) ==
    LET base == <<phone, "+" \o phone>>
        with_9th == "55" \o SubSeq(phone, 3, 4) \o "9" \o SubSeq(phone, 5, Len(phone))
        without_9th == "55" \o SubSeq(phone, 3, 4) \o SubSeq(phone, 6, Len(phone))
        brazil ==
            IF StartsWith(phone, "55") /\ Len(phone) = 12
            THEN <<with_9th, "+" \o with_9th>>
            ELSE IF StartsWith(phone, "55") /\ Len(phone) = 13
            THEN <<without_9th, "+" \o without_9th>>
            ELSE <<>>
    IN Unique(base \o brazil, {})

\* the "+" form first, and the list returned as it was collected
_generate_phone_variations_plus_first(phone) ==
    LET with_9th == "55" \o SubSeq(phone, 3, 4) \o "9" \o SubSeq(phone, 5, Len(phone))
        without_9th == "55" \o SubSeq(phone, 3, 4) \o SubSeq(phone, 6, Len(phone))
    IN <<"+" \o phone, phone>> \o
         (IF StartsWith(phone, "55") /\ Len(phone) = 12
          THEN <<with_9th, "+" \o with_9th>>
          ELSE IF StartsWith(phone, "55") /\ Len(phone) = 13
                  /\ CharAt(phone, 5) = "9"
          THEN <<without_9th, "+" \o without_9th>>
          ELSE <<>>)

_generate_phone_variations(phone) ==
    LET base == <<phone, "+" \o phone>>
        brazil ==
            IF StartsWith(phone, "55") /\ Len(phone) >= 4
            THEN IF Len(phone) = 12
                 THEN LET ddd == SubSeq(phone, 3, 4)
                          number == SubSeq(phone, 5, Len(phone))
                          with_9th == "55" \o ddd \o "9" \o number
                      IN IF Len(number) = 8
                         THEN <<with_9th, "+" \o with_9th>>
                         ELSE <<>>
                 ELSE IF Len(phone) = 13
                 THEN IF CharAt(phone, 5) = "9"
                      THEN LET without_9th ==
                                   "55" \o SubSeq(phone, 3, 4)
                                        \o SubSeq(phone, 6, Len(phone))
                           IN <<without_9th, "+" \o without_9th>>
                      ELSE <<>>
                 ELSE <<>>
            ELSE <<>>
    IN Unique(base \o brazil, {})

-----------------------------------------------------------------------------
(* business_router: execute_business_routing, stage by stage *)

\* the candidate keys _find_contact_by_phone probes, in order (lines 160-165)
Candidates(raw_user_id) ==
    _generate_phone_variations(_normalize_phone_number(raw_user_id))

\* return values of execute_business_routing
Pending == [state |-> "pending", text |-> NoneStr]
ReturnedNone == [state |-> "returned", text |-> NoneStr]
ReturnedText(text) == [state |-> "returned", text |-> SomeStr(text)]

\* what _find_contact_by_phone returned: (contact_doc, found_phone_id)
NotSearched == [state |-> "pending", contact_doc |-> <<>>, found_phone_id |-> NoneStr]
FoundNothing == [state |-> "returned", contact_doc |-> <<>>, found_phone_id |-> NoneStr]
FoundAt(key, data) ==
    [state |-> "returned", contact_doc |-> <<data>>, found_phone_id |-> SomeStr(key)]

\* an exception leaving the function instead of being caught at line 485
EndNone_propagating(why) ==
    /\ pc' = "done"
    /\ result' = IF why = "exception"
                 THEN [state |-> "raised", text |-> NoneStr] ELSE ReturnedNone
    /\ stopped' = why

\* the invocation ends returning None
EndNone(why) ==
    /\ pc' = "done"
    /\ result' = ReturnedNone
    /\ stopped' = why

\* FASE 1: _get_firestore_client(); a failing initialisation raises into
\* the handler's except clause (lines 485-490).  With the client at hand
\* _find_contact_by_phone is entered and computes its candidates before
\* it touches the store (lines 160-165).
GetFirestoreClient ==
    /\ pc = "start"
    /\ \E ok \in BOOLEAN :
         IF ok
         THEN /\ pc' = "find"
              /\ variations' = Candidates(user_id)
              /\ trace' = Append(trace, "firestore_client")
              /\ UNCHANGED <<result, stopped>>
         ELSE EndNone("exception") /\ UNCHANGED <<variations, trace>>
    /\ UNCHANGED <<storeVars, ragVars, boolVars, phoneVars, edgeVars, user_id, AGENT_ID, idx, probes,
                   found, status, funnel_id, playbook_config_to_use,
                   session_params, struct_params, agentCalls>>

\* the other policy of the contact lookup: a miss continues with a default
\* BDR contact instead of ending the invocation
NextCandidate_default_contact ==
    IF idx < Len(variations)
    THEN /\ idx' = idx + 1
         /\ UNCHANGED <<pc, found, result, stopped>>
    ELSE /\ idx' = idx
         /\ found' = FoundAt(variations[1], "status" :> VStr("bdr_inbound"))
         /\ pc' = "contact"
         /\ UNCHANGED <<result, stopped>>

\* where the loop of _find_contact_by_phone goes after a candidate that
\* gave no record (it raised, or the document does not exist): to the next
\* candidate, or out of the loop to `return None, None` (line 196) and from
\* there to the `return None` of lines 235-238
NextCandidate ==
    IF idx < Len(variations)
    THEN /\ idx' = idx + 1
         /\ UNCHANGED <<pc, found, result, stopped>>
    ELSE /\ idx' = idx
         /\ found' = FoundNothing
         /\ EndNone("contact_missing")

\* a probe failure that leaves the loop and reaches the handler's except
ProbeRaised_propagating ==
    /\ probes' = Append(probes, [key |-> variations[idx], result |-> "raised"])
    /\ EndNone("exception")
    /\ UNCHANGED <<idx, found>>

\* the except clause of the probe (lines 189-191): log and continue
ProbeRaised ==
    /\ probes' = Append(probes, [key |-> variations[idx], result |-> "raised"])
    /\ NextCandidate

\* a match that is remembered while the loop goes on to the next candidate
ProbeExists_continuing(key) ==
    /\ probes' = Append(probes, [key |-> key, result |-> "exists"])
    /\ IF idx < Len(variations)
       THEN /\ idx' = idx + 1
            /\ found' = FoundAt(key, contacts[key])
            /\ UNCHANGED <<pc, result, stopped>>
       ELSE /\ found' = FoundAt(key, contacts[key])
            /\ pc' = "contact"
            /\ UNCHANGED <<idx, result, stopped>>

\* contact_doc.exists (lines 182-186): return contact_doc, phone_variant
ProbeExists(key) ==
    /\ probes' = Append(probes, [key |-> key, result |-> "exists"])
    /\ found' = FoundAt(key, contacts[key])
    /\ pc' = "contact"
    /\ UNCHANGED <<idx, result, stopped>>

\* the document does not exist (lines 187-188)
ProbeMissing(key) ==
    /\ probes' = Append(probes, [key |-> key, result |-> "missing"])
    /\ NextCandidate

\* one turn of the loop of _find_contact_by_phone (lines 170-191), and
\* what follows it without touching the store when the loop ends
ProbeContact ==
    /\ pc = "find"
    /\ idx <= Len(variations)
    /\ LET key == variations[idx]
       IN \E raises \in BOOLEAN :
            IF raises THEN ProbeRaised
            ELSE IF key \in DOMAIN contacts THEN ProbeExists(key)
            ELSE ProbeMissing(key)
    /\ UNCHANGED <<storeVars, ragVars, boolVars, phoneVars, edgeVars, user_id, AGENT_ID, variations,
                   status, funnel_id, playbook_config_to_use, session_params,
                   struct_params, agentCalls, trace>>

\* the prefix matched without regard to letter case
FunnelOf_ignoring_case(contact_status) ==
    IF Truthy(contact_status) /\ StartsWith(StrLower(contact_status.v), "sdr_")
    THEN "core_sdr" ELSE "core_bdr"

\* FASE 4 (lines 262-264); status is truthy here or the test is not made
FunnelOf(contact_status) ==
    IF Truthy(contact_status) /\ StartsWith(contact_status.v, "sdr_")
    THEN "core_sdr" ELSE "core_bdr"

\* FASE 3 and 4: the contact's fields and the funnel.  A truthy status that
\* is no str has no startswith: AttributeError, caught at line 485
DeriveFunnel ==
    /\ pc = "contact"
    /\ LET contact_data == found.contact_doc[1]
           st == DictGet(contact_data, "status", VStr("bdr_inbound"))
       IN /\ status' = st
          /\ IF Truthy(st) /\ st.t # "str"
             THEN /\ EndNone("exception")
                  /\ trace' = Append(trace, "contact_found")
                  /\ UNCHANGED funnel_id
             ELSE /\ funnel_id' = FunnelOf(st)
                  /\ pc' = "tenant"
                  /\ trace' = trace \o <<"contact_found", "funnel_derived">>
                  /\ UNCHANGED <<result, stopped>>
    /\ UNCHANGED <<storeVars, ragVars, boolVars, phoneVars, edgeVars, user_id, AGENT_ID, variations, idx,
                   probes,
                   found, playbook_config_to_use, session_params, struct_params,
                   agentCalls>>

\* the activation check left out
PlaybookIsActive_always(entry) == TRUE

\* lines 305-306: playbook_is_active
PlaybookIsActive(entry) == _to_bool(DictGet(entry.v, "status", VNone))

\* FASE 5 (lines 274-316): the tenant's playbook entry for the funnel and
\* its activation.  Every early return is a plain `return None`.
FetchPlaybook ==
    /\ pc = "tenant"
    /\ \E raises \in BOOLEAN :
         IF raises THEN EndNone("exception") /\ UNCHANGED <<playbook_config_to_use, trace>>
         ELSE IF tenant_id \notin DOMAIN tenants
         THEN EndNone("tenant_missing") /\ UNCHANGED <<playbook_config_to_use, trace>>
         ELSE LET all_configs == tenants[tenant_id].playbook_configs
                  entry == ItemsGet(all_configs, funnel_id)
              IN IF all_configs = <<>>
                 THEN EndNone("no_playbook_configs")
                      /\ UNCHANGED <<playbook_config_to_use, trace>>
                 ELSE /\ playbook_config_to_use' = entry
                      /\ IF entry = VNone
                         THEN EndNone("no_playbook") /\ UNCHANGED trace
                         ELSE IF entry.t # "dict"
                         THEN EndNone("not_mapping") /\ UNCHANGED trace
                         ELSE IF ~PlaybookIsActive(entry)
                         THEN EndNone("inactive")
                              /\ trace' = Append(trace, "playbook_fetched")
                         ELSE /\ pc' = "params"
                              /\ trace' = trace \o <<"playbook_fetched",
                                                     "playbook_active">>
                              /\ UNCHANGED <<result, stopped>>
    /\ UNCHANGED <<storeVars, ragVars, boolVars, phoneVars, edgeVars, user_id, AGENT_ID, variations, idx,
                   probes,
                   found, status, funnel_id, session_params, struct_params,
                   agentCalls>>

\* lines 320-323
IGNORED_FIELDS ==
    {"core_active", "active", "enabled", "status",
     "is_active", "core_enabled", "playbook_active"}

\* the ignore-set matched against the key as it is spelled
PlaybookParams_case_sensitive(cfg) ==
    LET kept == DOMAIN cfg \ IGNORED_FIELDS
    IN [name \in {"playbook_" \o key : key \in kept} |->
          cfg[CHOOSE key \in kept : "playbook_" \o key = name]]

\* FASE 6 (lines 326-336): the entry's fields under a playbook_ prefix
PlaybookParams(cfg) ==
    LET kept == {key \in DOMAIN cfg :
                   StrLower(key) \notin {StrLower(f) : f \in IGNORED_FIELDS}}
    IN [name \in {"playbook_" \o key : key \in kept} |->
          cfg[CHOOSE key \in kept : "playbook_" \o key = name]]

\* a key collision resolved in favour of the earlier source
Merged_first_wins(a, b) ==
    [k \in DOMAIN a \cup DOMAIN b |-> IF k \in DOMAIN a THEN a[k] ELSE b[k]]

\* {**a, **b}: b's values win
Merged(a, b) ==
    [k \in DOMAIN a \cup DOMAIN b |-> IF k \in DOMAIN b THEN b[k] ELSE a[k]]

\* FASE 7 (lines 342-353)
SessionParams(cfg, contact_data) ==
    Merged(
        Merged("tenant_id" :> VStr(tenant_id) @@ "channel_id" :> VStr("channel")
               @@ "user_id" :> VStr(user_id) @@ "playbook_name" :> VStr(funnel_id),
               PlaybookParams(cfg)),
        "status" :> status
        @@ "score" :> DictGet(contact_data, "score", VInt(0))
        @@ "context_score" :>
             DictGet(contact_data, "context_score", VStr("Lead inbound (BDR Padrão)"))
        @@ "name" :> DictGet(contact_data, "name", VStr(""))
        @@ "source_list" :> DictGet(contact_data, "source_list", VStr("")))

\* FASE 6 and 7: no call leaves the process
BuildSessionParams ==
    /\ pc = "params"
    /\ session_params' =
         SessionParams(playbook_config_to_use.v, found.contact_doc[1])
    /\ trace' = Append(trace, "params_built")
    /\ pc' = "request"
    /\ UNCHANGED <<storeVars, ragVars, boolVars, phoneVars, edgeVars, user_id, AGENT_ID, variations, idx,
                   probes,
                   found, status, funnel_id, playbook_config_to_use,
                   struct_params, agentCalls, result, stopped>>

Digits == "0123456789"

RECURSIVE NatToStr(_)
NatToStr(n) ==
    IF n < 10 THEN CharAt(Digits, n + 1)
    ELSE NatToStr(n \div 10) \o CharAt(Digits, (n % 10) + 1)

\* str(n) of an int
IntToStr(n) == IF n < 0 THEN "-" \o NatToStr(-n) ELSE NatToStr(n)

\* str(x) of the float n/10
FloatToStr(n) ==
    (IF n < 0 THEN "-" ELSE "")
    \o NatToStr((IF n < 0 THEN -n ELSE n) \div 10) \o "."
    \o NatToStr((IF n < 0 THEN -n ELSE n) % 10)

RECURSIVE JsonDumps(_)
RECURSIVE JsonList(_)
RECURSIVE JsonDict(_)
\* the elements of a list, joined by ", "
JsonList(q) ==
    IF q = <<>> THEN ""
    ELSE JsonDumps(Head(q))
         \o (IF Tail(q) = <<>> THEN "" ELSE ", " \o JsonList(Tail(q)))
\* the items of a dict, joined by ", "; the order of a nested dict's keys is
\* not part of the model
JsonDict(d) ==
    IF DOMAIN d = {} THEN ""
    ELSE LET k == CHOOSE key \in DOMAIN d : TRUE
             rest == [key \in DOMAIN d \ {k} |-> d[key]]
         IN "\"" \o k \o "\": " \o JsonDumps(d[k])
            \o (IF DOMAIN rest = {} THEN "" ELSE ", " \o JsonDict(rest))
\* json.dumps(value, ensure_ascii=False)
JsonDumps(value) ==
    CASE value.t = "none" -> "null"
      [] value.t = "bool" -> IF value.v THEN "true" ELSE "false"
      [] value.t = "int" -> IntToStr(value.v)
      [] value.t = "float" -> FloatToStr(value.v)
      [] value.t = "str" -> "\"" \o value.v \o "\""
      [] value.t = "list" -> "[" \o JsonList(value.v) \o "]"
      [] value.t = "dict" -> "{" \o JsonDict(value.v) \o "}"

\* str(value)
PyStr(value) ==
    CASE value.t = "bool" -> IF value.v THEN "True" ELSE "False"
      [] value.t = "int" -> IntToStr(value.v)
      [] value.t = "float" -> FloatToStr(value.v)
      [] value.t = "str" -> value.v
      [] value.t = "none" -> "None"

\* lines 390-408: the string one session parameter is sent as.  bool is a
\* subclass of int, so a bool is taken by the isinstance(value, (int, float))
\* branch and the bool branch after it is never reached.
ConvertedValue(value) ==
    IF value.t \in {"dict", "list"} THEN JsonDumps(value)
    ELSE IF value.t \in {"int", "float", "bool"} THEN PyStr(value)
    ELSE PyStr(value)

\* a None value sent as the empty string
StructParams_none_as_empty(params) ==
    [k \in DOMAIN params |->
       IF params[k].t = "none" THEN "" ELSE ConvertedValue(params[k])]

\* FASE 12 (lines 385-410): None values are skipped
StructParams(params) ==
    [k \in {key \in DOMAIN params : params[key].t # "none"} |->
       ConvertedValue(params[k])]

\* FASE 8 to 13: the agent id, the Dialogflow client and the request
\* parameters; a failing client initialisation or Struct update raises
BuildRequest ==
    /\ pc = "request"
    /\ IF AGENT_ID = ""
       THEN EndNone("no_agent_id") /\ UNCHANGED <<struct_params, trace>>
       ELSE \E raises \in BOOLEAN :
              IF raises
              THEN EndNone("exception") /\ UNCHANGED <<struct_params, trace>>
              ELSE /\ struct_params' = StructParams(session_params)
                   /\ trace' = Append(trace, "request_built")
                   /\ pc' = "detect"
                   /\ UNCHANGED <<result, stopped>>
    /\ UNCHANGED <<storeVars, ragVars, boolVars, phoneVars, edgeVars, user_id, AGENT_ID, variations, idx,
                   probes,
                   found, status, funnel_id, playbook_config_to_use,
                   session_params, agentCalls>>

\* the agent call, followed by a write to the record of the contact
DetectIntent_recording ==
    /\ pc = "detect"
    /\ agentCalls' = Append(agentCalls, struct_params)
    /\ trace' = Append(trace, "detect_intent")
    /\ pc' = "done"
    /\ result' = ReturnedNone /\ stopped' = "no_reply"
    /\ contacts' = [contacts EXCEPT ![found.found_phone_id[1]] =
                      "status" :> VStr("contacted")]
    /\ UNCHANGED <<tenant_id, tenants, ragVars, boolVars, phoneVars, edgeVars, user_id,
                   AGENT_ID, variations, idx, probes, found, status, funnel_id,
                   playbook_config_to_use, session_params, struct_params>>

\* FASE 14 to 17: the one detect_intent call and its reply
DetectIntent ==
    /\ pc = "detect"
    /\ agentCalls' = Append(agentCalls, struct_params)
    /\ trace' = Append(trace, "detect_intent")
    /\ pc' = "done"
    /\ \E reply \in {"raises", "no_text", "text"} :
         CASE reply = "raises" ->
                result' = ReturnedNone /\ stopped' = "agent_error"
           [] reply = "no_text" ->
                result' = ReturnedNone /\ stopped' = "no_reply"
           [] reply = "text" ->
                result' = ReturnedText("reply") /\ stopped' = "replied"
    /\ UNCHANGED <<storeVars, ragVars, boolVars, phoneVars, edgeVars, user_id, AGENT_ID, variations, idx,
                   probes,
                   found, status, funnel_id, playbook_config_to_use,
                   session_params, struct_params>>

\* no invocation of execute_business_routing is under way
RouteIdle ==
    /\ user_id = "" /\ AGENT_ID = "" /\ pc = "idle" /\ variations = <<>> /\ idx = 1
    /\ probes = <<>> /\ found = NotSearched /\ status = VNone
    /\ funnel_id = "" /\ playbook_config_to_use = VNone
    /\ session_params = <<>> /\ struct_params = <<>> /\ agentCalls = <<>>
    /\ result = Pending /\ stopped = "" /\ trace = <<>>

RagIdle ==
    /\ playbook_name = NoneStr /\ rag_identifier = NoneStr
    /\ explicit_data_store_id = NoneStr
    /\ ragPc = "idle" /\ ragOutcome = NoOutcome /\ byIdOutcome = NoOutcome

BoolIdle == boolIn = VNone /\ boolOut = [to_bool |-> <<>>, is_truthy |-> <<>>]

\* neither phone function has been called
NotCalled == [normalized |-> <<>>, renormalized |-> <<>>, variations |-> <<>>]
PhoneIdle == phoneIn = "" /\ phoneOut = NotCalled

\* run_query has not been called
NoKey == [env |-> <<>>, secret_name |-> <<>>, project_id |-> "",
          payload |-> <<>>]
NoQueryOutcome == [kind |-> "pending", at |-> "none"]
QueryIdle ==
    /\ api_key = NoneStr /\ keyConfig = NoKey /\ _cached_api_key = ""
    /\ query = "" /\ queryPc = "idle" /\ searchCalls = <<>>
    /\ queryOutcome = NoQueryOutcome

\* no webhook request is being handled
WebhookIdle ==
    /\ platform = "" /\ signature = NoneStr /\ body = "" /\ appSecret = <<>>
    /\ secret = <<>> /\ webhookPc = "idle" /\ webhookStatus = 0
    /\ published = <<>>

\* no push request is being handled
PushIdle ==
    /\ request_json = <<>> /\ parsed_data = <<>> /\ channel_mapping = <<>>
    /\ response_text = <<>> /\ access_token = <<>> /\ pushPc = "idle"
    /\ pushStatus = 0 /\ pushFailure = "" /\ sent = <<>>

EdgeIdle == QueryIdle /\ WebhookIdle /\ PushIdle

-----------------------------------------------------------------------------
(* The documents and arguments the resolver is exercised on *)

\* playbook_configs entries: with and without a store id, with every kind
\* of status, and one entry that is not a mapping
PlaybookEntries ==
    { VStr("not-a-mapping"),
      VDict("rag_id" :> VStr("ds1") @@ "status" :> VBool(TRUE)),
      VDict("rag_id" :> VStr("ds1") @@ "status" :> VStr("false")),
      VDict("rag_id" :> VStr("ds1") @@ "rag_region" :> VStr("eu")),
      VDict("rag_datastore_id" :> VStr("ds2") @@ "rag_id" :> VStr("ds1")
            @@ "rag_location" :> VStr("us") @@ "status" :> VInt(1)),
      VDict("rag_datastore_id" :> VStr("") @@ "rag_id" :> VStr("ds2")
            @@ "status" :> VNone),
      VDict("status" :> VBool(TRUE) @@ "tone" :> VStr("friendly")) }

\* rag_configs entries
RagEntries ==
    { VNone,
      VDict("data_store_id" :> VStr("ds1") @@ "location" :> VStr("us")),
      VDict("data_store_id" :> VStr("") @@ "rag_datastore_id" :> VStr("ds2")
            @@ "region" :> VStr("eu")),
      VDict("location" :> VStr("us")) }

PlaybookNames == {"core_bdr", "core_sdr"}
\* an alias may spell a store id or a playbook name
Aliases == {"default", "ds2"}

\* every map over a subset of `names` with values in `entries`, in every
\* iteration order
ItemsOver(names, entries) ==
    UNION { { q \in [1..Cardinality(ks) -> [k : ks, v : entries]] :
                \A i, j \in DOMAIN q : i # j => q[i].k # q[j].k }
            : ks \in SUBSET names }

TenantDocs ==
    [playbook_configs : ItemsOver(PlaybookNames, PlaybookEntries),
     rag_configs : ItemsOver(Aliases, RagEntries)]

\* another tenant's document: its store dsX is declared by nobody else
OtherTenantDoc ==
    [playbook_configs |-> <<>>,
     rag_configs |-> <<[k |-> "default",
                        v |-> VDict("data_store_id" :> VStr("dsX")
                                    @@ "location" :> VStr("us"))]>>]

ExplicitIds == {NoneStr, SomeStr(""), SomeStr("ds1"), SomeStr("ds2"),
                SomeStr("dsX"), SomeStr("core_bdr")}
PlaybookSelectors == {NoneStr, SomeStr("core_bdr"), SomeStr("core_sdr")}
AliasSelectors == {NoneStr, SomeStr("default"), SomeStr("ds2"), SomeStr("unknown")}

InitRag ==
    /\ \/ /\ tenant_id = "t1"
          /\ \E doc \in TenantDocs :
               tenants \in { "t2" :> OtherTenantDoc,
                             "t1" :> doc @@ "t2" :> OtherTenantDoc }
       \/ /\ tenant_id = "t2"
          /\ \E doc \in TenantDocs :
               /\ doc.playbook_configs = <<>>
               /\ tenants = ("t1" :> doc @@ "t2" :> OtherTenantDoc)
    /\ playbook_name \in PlaybookSelectors
    /\ rag_identifier \in AliasSelectors
    /\ explicit_data_store_id \in ExplicitIds
    /\ contacts = <<>>
    /\ ragPc = "call"
    /\ ragOutcome = NoOutcome /\ byIdOutcome = NoOutcome
    /\ RouteIdle
    /\ BoolIdle
    /\ PhoneIdle
    /\ EdgeIdle

\* one call of resolve_store_target
ResolveStoreTarget ==
    /\ ragPc = "call"
    /\ ragOutcome' = resolve_store_target(tenants, tenant_id, playbook_name,
                                          rag_identifier, explicit_data_store_id)
    /\ ragPc' = "done"
    /\ UNCHANGED <<storeVars, playbook_name, rag_identifier,
                   explicit_data_store_id, byIdOutcome, routeVars, boolVars,
                   phoneVars, edgeVars>>

\* a second call for the same tenant, after a playbook name or an alias
\* yielded a target: the target's own store id as explicit_data_store_id
ResolveByOwnId ==
    /\ ragPc = "done" /\ byIdOutcome = NoOutcome
    /\ ragOutcome.kind = "target" /\ ragOutcome.by \in {"playbook", "alias"}
    /\ byIdOutcome' =
         resolve_store_target(tenants, tenant_id, NoneStr, NoneStr,
                              SomeStr(ragOutcome.target[1].data_store_id.v))
    /\ UNCHANGED <<storeVars, playbook_name, rag_identifier,
                   explicit_data_store_id, ragPc, ragOutcome, routeVars,
                   boolVars, phoneVars, edgeVars>>

NextRag == ResolveStoreTarget \/ ResolveByOwnId

SpecRag == InitRag /\ [][NextRag]_vars

-----------------------------------------------------------------------------
(* The requests and documents execute_business_routing is exercised on *)

\* at most this many contact documents exist in the tenant's collection
MaxContacts == 2

RawUserIds ==
    {"5511987654321", "+551187654321", "5511887654321", "14155550100",
     " +5511987654321"}

ContactKeys ==
    {"5511987654321", "+5511987654321", "551187654321", "+551187654321"}

\* contact documents: a BDR lead, an SDR lead, one without any field and
\* one whose status is a number
ContactDatas ==
    { "status" :> VStr("bdr_inbound") @@ "score" :> VInt(10) @@ "name" :> VStr("Ana"),
      "status" :> VStr("sdr_active"),
      EmptyDict,
      "status" :> VInt(5) }

ContactStores ==
    UNION { [ks -> ContactDatas] :
              ks \in {x \in SUBSET ContactKeys : Cardinality(x) <= MaxContacts} }

\* playbook_configs entries of the routed tenant
RouterEntries ==
    { VDict("status" :> VBool(TRUE) @@ "rag_id" :> VStr("ds1")
            @@ "tone" :> VStr("friendly")),
      VDict("rag_id" :> VStr("ds1") @@ "tone" :> VStr("friendly")),
      VDict("status" :> VStr("false") @@ "rag_id" :> VStr("x")),
      VDict("status" :> VInt(1)),
      VStr("not-a-mapping"),
      VNone }

SdrEntry == VDict("status" :> VStr("Sim") @@ "name" :> VStr("SDR"))

RouterPlaybookConfigs ==
    {<<>>, <<[k |-> "core_sdr", v |-> SdrEntry]>>}
    \cup {<<[k |-> "core_bdr", v |-> e]>> : e \in RouterEntries}

InitRoute ==
    /\ tenant_id = "t1"
    /\ tenants \in {<<>>} \cup
         {"t1" :> [playbook_configs |-> c, rag_configs |-> <<>>] :
            c \in RouterPlaybookConfigs}
    /\ contacts \in ContactStores
    /\ user_id \in RawUserIds
    /\ AGENT_ID \in {"", "agent-1"}
    /\ pc = "start" /\ variations = <<>> /\ idx = 1
    /\ probes = <<>> /\ found = NotSearched /\ status = VNone
    /\ funnel_id = "" /\ playbook_config_to_use = VNone
    /\ session_params = <<>> /\ struct_params = <<>> /\ agentCalls = <<>>
    /\ result = Pending /\ stopped = "" /\ trace = <<>>
    /\ RagIdle
    /\ BoolIdle
    /\ PhoneIdle
    /\ EdgeIdle

Next ==
    \/ GetFirestoreClient
    \/ ProbeContact
    \/ DeriveFunnel
    \/ FetchPlaybook
    \/ BuildSessionParams
    \/ BuildRequest
    \/ DetectIntent

Spec == InitRoute /\ [][Next]_vars

-----------------------------------------------------------------------------
(* The status values the activation coercion is exercised on *)

StatusStrings ==
    {"true", "TRUE", "True", "tRuE", "1", "yes", "YES", "Yes", "sim", "Sim",
     "SIM", "y", "Y", "on", "ON", "On",
     "false", "False", "0", "no", "off", "n", "", "tru", "truee", "11",
     "ye s", "active", "2", "nao",
     " true", "true ", " Yes ", "\tON", "sim\n", " 1 ", " ", " false ", " o n "}

StatusValues ==
    {VNone, VBool(TRUE), VBool(FALSE),
     VInt(0), VInt(1), VInt(2), VInt(-1),
     VFloat(0), VFloat(5), VFloat(10), VFloat(-25),
     VDict(EmptyDict), VDict("status" :> VBool(TRUE)),
     VList(<<>>), VList(<<VBool(TRUE)>>)}
    \cup {VStr(x) : x \in StatusStrings}

InitBool ==
    /\ boolIn \in StatusValues
    /\ boolOut = [to_bool |-> <<>>, is_truthy |-> <<>>]
    /\ tenant_id = "t1" /\ tenants = <<>> /\ contacts = <<>>
    /\ RagIdle
    /\ RouteIdle
    /\ PhoneIdle
    /\ EdgeIdle

\* the router coerces the status
ToBool ==
    /\ boolOut.to_bool = <<>>
    /\ boolOut' = [boolOut EXCEPT !.to_bool = <<_to_bool(boolIn)>>]
    /\ UNCHANGED <<boolIn, storeVars, ragVars, routeVars, phoneVars, edgeVars>>

\* the RAG resolver coerces the status
IsTruthy ==
    /\ boolOut.is_truthy = <<>>
    /\ boolOut' = [boolOut EXCEPT !.is_truthy = <<_is_truthy(boolIn)>>]
    /\ UNCHANGED <<boolIn, storeVars, ragVars, routeVars, phoneVars, edgeVars>>

NextBool == ToBool \/ IsTruthy

SpecBool == InitBool /\ [][NextBool]_vars

-----------------------------------------------------------------------------
(* The router and the RAG resolver reading one tenant document: the message *)
(* of a known contact is routed while a query names the contact's funnel as *)
(* its playbook                                                             *)

\* the status of the tenant's core_bdr entry; <<>> is an entry without the key
ActivationStatuses ==
    {<<>>} \cup {<<s>> : s \in StatusValues}

\* entries that all declare the store ds1
ActivationEntries ==
    { VDict(IF s = <<>> THEN "rag_id" :> VStr("ds1")
            ELSE "rag_id" :> VStr("ds1") @@ "status" :> s[1])
      : s \in ActivationStatuses }

InitBoth ==
    /\ tenant_id = "t1"
    /\ tenants \in
         {"t1" :> [playbook_configs |-> <<[k |-> "core_bdr", v |-> e]>>,
                   rag_configs |-> <<>>] : e \in ActivationEntries}
    /\ contacts \in {"5511987654321" :> d : d \in {EmptyDict, "status" :> VStr("")}}
    /\ user_id = "+5511987654321"
    /\ AGENT_ID = "agent-1"
    /\ pc = "start" /\ variations = <<>> /\ idx = 1
    /\ probes = <<>> /\ found = NotSearched /\ status = VNone
    /\ funnel_id = "" /\ playbook_config_to_use = VNone
    /\ session_params = <<>> /\ struct_params = <<>> /\ agentCalls = <<>>
    /\ result = Pending /\ stopped = "" /\ trace = <<>>
    /\ playbook_name = SomeStr("core_bdr")
    /\ rag_identifier = NoneStr /\ explicit_data_store_id = NoneStr
    /\ ragPc = "call" /\ ragOutcome = NoOutcome /\ byIdOutcome = NoOutcome
    /\ BoolIdle
    /\ PhoneIdle
    /\ EdgeIdle

NextBoth ==
    \/ GetFirestoreClient
    \/ ProbeContact
    \/ DeriveFunnel
    \/ FetchPlaybook
    \/ BuildSessionParams
    \/ BuildRequest
    \/ DetectIntent
    \/ ResolveStoreTarget

SpecBoth == InitBoth /\ [][NextBoth]_vars

-----------------------------------------------------------------------------
(* The message of one known contact routed over playbook entries and       *)
(* contact records of every shape                                          *)

\* a playbook entry with control fields in several letter cases, payload
\* keys that differ in case only, a key `name`, and payload values of every
\* type
RichEntry ==
    VDict("status" :> VStr("on") @@ "Status" :> VStr("paused")
          @@ "ACTIVE" :> VBool(FALSE) @@ "Is_Active" :> VInt(0)
          @@ "playbook_active" :> VBool(TRUE)
          @@ "Tone" :> VStr("formal") @@ "tone" :> VStr("friendly")
          @@ "name" :> VStr("Inbound BDR") @@ "score" :> VInt(7)
          @@ "premium" :> VBool(TRUE) @@ "handoff" :> VBool(FALSE)
          @@ "notes" :> VNone @@ "ratio" :> VFloat(5)
          @@ "tags" :> VList(<<VStr("a"), VInt(2), VBool(TRUE)>>)
          @@ "limits" :> VDict("max" :> VFloat(15)))

\* the entry of the end-to-end scenario, one with a boolean payload field
\* only, and the rich one
ParamEntries ==
    { VDict("status" :> VBool(TRUE) @@ "rag_id" :> VStr("ds1")
            @@ "tone" :> VStr("friendly")),
      VDict("status" :> VInt(1) @@ "premium" :> VBool(TRUE) @@ "name" :> VNone),
      RichEntry }

\* the status a contact record may hold; <<>> is a record without the field
ContactStatuses ==
    {<<>>, <<VNone>>} \cup
    {<<VStr(s)>> : s \in {"", "bdr_inbound", "sdr_active", "sdr_", "sdr", "SDR_hot",
                          "bdr_sdr_x", " sdr_active"}}

\* the other fields of a contact record
ContactFields ==
    { EmptyDict,
      "score" :> VInt(10) @@ "name" :> VStr("Ana"),
      "score" :> VFloat(75) @@ "context_score" :> VStr("Lead quente")
        @@ "name" :> VNone @@ "source_list" :> VList(<<VStr("crm"), VStr("ads")>>),
      "score" :> VInt(0) @@ "source_list" :> VStr("") }

ParamContacts ==
    { IF s = <<>> THEN f ELSE f @@ "status" :> s[1]
      : s \in ContactStatuses, f \in ContactFields }

InitParams ==
    /\ tenant_id = "t1"
    /\ tenants \in
         {"t1" :> [playbook_configs |-> <<[k |-> "core_sdr", v |-> s],
                                          [k |-> "core_bdr", v |-> b]>>,
                   rag_configs |-> <<>>] : s \in ParamEntries, b \in ParamEntries}
    /\ contacts \in {"5511987654321" :> d : d \in ParamContacts}
    /\ user_id = "+5511987654321"
    /\ AGENT_ID \in {"", "agent-1"}
    /\ pc = "start" /\ variations = <<>> /\ idx = 1
    /\ probes = <<>> /\ found = NotSearched /\ status = VNone
    /\ funnel_id = "" /\ playbook_config_to_use = VNone
    /\ session_params = <<>> /\ struct_params = <<>> /\ agentCalls = <<>>
    /\ result = Pending /\ stopped = "" /\ trace = <<>>
    /\ RagIdle
    /\ BoolIdle
    /\ PhoneIdle
    /\ EdgeIdle

SpecParams == InitParams /\ [][Next]_vars

-----------------------------------------------------------------------------
(* The strings the two phone functions are exercised on *)

AreaCodes == {"11", "51", "19"}
LocalNumbers == {"87654321", "95357522", "99999999"}

\* 12 characters after the country code 55: no ninth digit
BrazilShort == {"55" \o ddd \o n : ddd \in AreaCodes, n \in LocalNumbers}
\* 13 characters with the ninth digit
BrazilLong == {"55" \o ddd \o "9" \o n : ddd \in AreaCodes, n \in LocalNumbers}

\* other keys: 13 characters without a 9 at index 4, other countries with
\* 12 and 13 characters, other lengths, characters that are no digits
OtherKeys ==
    {"5511887654321", "5511087654321", "5599187654321",
     "541187654321", "5411987654321", "155118765432", "4915112345678",
     "", "5", "55", "551", "5511", "55119", "5511987654", "55118765432",
     "14155550100", "55119876543210", "551198765432100",
     "55ab87654321", "55-11-876543", "55 1187654321", "55119 87654321"}

\* raw identities: "+", white space and both around a number
RawIdentities ==
    {"+5511987654321", "++5511987654321", " +5511987654321", "+ 5511987654321",
     " 5511987654321 ", "\t5511987654321\n", "  ++551187654321", "+551187654321 ",
     "5511987654321+", "+", " ", " + ", "+ +5511987654321", " + 551187654321",
     "+55 11 98765-4321"}

PhoneInputs == BrazilShort \cup BrazilLong \cup OtherKeys \cup RawIdentities

InitPhone ==
    /\ phoneIn \in PhoneInputs
    /\ phoneOut = NotCalled
    /\ tenant_id = "t1" /\ tenants = <<>> /\ contacts = <<>>
    /\ RagIdle
    /\ RouteIdle
    /\ BoolIdle
    /\ EdgeIdle

\* _normalize_phone_number(phoneIn)
NormalizePhone ==
    /\ phoneOut.normalized = <<>>
    /\ phoneOut' = [phoneOut EXCEPT
                      !.normalized = <<_normalize_phone_number(phoneIn)>>]
    /\ UNCHANGED <<phoneIn, storeVars, ragVars, routeVars, boolVars, edgeVars>>

\* _normalize_phone_number applied to its own result
NormalizeAgain ==
    /\ phoneOut.normalized # <<>> /\ phoneOut.renormalized = <<>>
    /\ phoneOut' = [phoneOut EXCEPT
                      !.renormalized =
                         <<_normalize_phone_number(phoneOut.normalized[1])>>]
    /\ UNCHANGED <<phoneIn, storeVars, ragVars, routeVars, boolVars, edgeVars>>

\* _generate_phone_variations(phoneIn)
GeneratePhoneVariations ==
    /\ phoneOut.variations = <<>>
    /\ phoneOut' = [phoneOut EXCEPT
                      !.variations = <<_generate_phone_variations(phoneIn)>>]
    /\ UNCHANGED <<phoneIn, storeVars, ragVars, routeVars, boolVars, edgeVars>>

NextPhone == NormalizePhone \/ NormalizeAgain \/ GeneratePhoneVariations

SpecPhone == InitPhone /\ [][NextPhone]_vars

-----------------------------------------------------------------------------
(* Properties of resolve_store_target, checked under SpecRag *)

RagDone == ragPc = "done"
TenantExists == tenant_id \in DOMAIN tenants
TenantData == tenants[tenant_id]
PlaybookTable == _extract_targets_from_playbooks(TenantData.playbook_configs)
RagTable == _extract_targets_from_rag_configs(TenantData.rag_configs)
AuthorizationTable == AllowedTargets(PlaybookTable, RagTable)

\* the store ids an entry of the tenant document spells under one of the
\* store-id fields of its kind
DeclaredUnder(items, fields) ==
    { items[p[1]].v.v[p[2]] :
        p \in { q \in (DOMAIN items) \X fields :
                  /\ items[q[1]].v.t = "dict"
                  /\ q[2] \in DOMAIN items[q[1]].v.v } }
DeclaredStoreIds(doc) ==
    DeclaredUnder(doc.playbook_configs, {"rag_datastore_id", "rag_id"})
    \cup DeclaredUnder(doc.rag_configs, {"data_store_id", "rag_datastore_id"})

\* the selector that decides: the first one given, in the order
\* explicit_store_id, playbook_name, alias
Deciding ==
    IF Given(explicit_data_store_id) THEN "explicit"
    ELSE IF Given(playbook_name) THEN "playbook"
    ELSE IF Given(rag_identifier) THEN "alias"
    ELSE "none"

\* C1: a returned target carries a store id that an entry of the same
\* tenant's playbook_configs or rag_configs declares, and the identifier
\* that decided the call is a key of that tenant's lookup tables; an
\* identifier that is no such key yields no target.
C1_TargetIsDeclared ==
    (RagDone /\ ragOutcome.kind = "target") =>
        /\ TenantExists
        /\ ragOutcome.target[1].data_store_id \in DeclaredStoreIds(TenantData)
        /\ Deciding = "explicit" =>
             explicit_data_store_id[1] \in DOMAIN AuthorizationTable
        /\ Deciding = "playbook" => playbook_name[1] \in Keys(PlaybookTable)
        /\ Deciding = "alias" => rag_identifier[1] \in DOMAIN AuthorizationTable
        /\ Deciding # "none"

\* a target reached through an alias of the tenant while another tenant's
\* store id is not reachable by it
C1_Witness ==
    /\ RagDone /\ tenant_id = "t1" /\ TenantExists
    /\ ragOutcome.kind = "target" /\ ragOutcome.by = "alias"
    /\ ragOutcome.target[1].data_store_id = VStr("ds2")

\* what the call returns when only one selector is passed
AloneOutcome(which) ==
    resolve_store_target(
        tenants, tenant_id,
        IF which = "playbook" THEN playbook_name ELSE NoneStr,
        IF which = "alias" THEN rag_identifier ELSE NoneStr,
        IF which = "explicit" THEN explicit_data_store_id ELSE NoneStr)

\* the precedence rule: the deciding selector's branch ended the call, with
\* the outcome that selector has when passed alone; with no selector the
\* call raised RagConfigurationError
PrecedenceRule ==
    /\ ragOutcome.by = Deciding
    /\ Deciding # "none" => ragOutcome = AloneOutcome(Deciding)
    /\ Deciding = "none" =>
         ragOutcome.kind = "RagConfigurationError" /\ ragOutcome.target = <<>>

\* C2 as stated: every call follows the precedence rule.
C2_Original == RagDone => PrecedenceRule

\* C2 (amended): for a tenant whose document exists, the first selector
\* given, in the order explicit_store_id, playbook_name, alias, alone
\* decides the outcome, no lower selector is consulted, and a call without
\* any selector fails with RagConfigurationError; for a tenant without a
\* document the call fails with RagNotFoundError whatever the selectors.
C2_Precedence ==
    RagDone =>
        /\ TenantExists => PrecedenceRule
        /\ ~TenantExists =>
             ragOutcome = Raised("RagNotFoundError", "tenant")

\* an unknown explicit id wins over a playbook name and an alias that
\* would both resolve
C2_Witness ==
    /\ RagDone /\ TenantExists
    /\ explicit_data_store_id = SomeStr("dsX")
    /\ Given(playbook_name) /\ playbook_name[1] \in Keys(PlaybookTable)
    /\ Given(rag_identifier) /\ rag_identifier[1] \in DOMAIN AuthorizationTable
    /\ ragOutcome.kind = "RagUnauthorizedError"

\* C3: an explicit store id that is no key of the tenant's authorization
\* table fails with RagUnauthorizedError, and so does an alias that decides
\* the call and is no key of it; no target is returned.
C3_UnknownIdUnauthorized ==
    (RagDone /\ TenantExists) =>
        /\ (Deciding = "explicit"
            /\ explicit_data_store_id[1] \notin DOMAIN AuthorizationTable) =>
               ragOutcome.kind = "RagUnauthorizedError" /\ ragOutcome.target = <<>>
        /\ (Deciding = "alias"
            /\ rag_identifier[1] \notin DOMAIN AuthorizationTable) =>
               ragOutcome.kind = "RagUnauthorizedError" /\ ragOutcome.target = <<>>

\* an unknown alias decided the call of a tenant that has targets
C3_Witness ==
    /\ RagDone /\ TenantExists /\ Deciding = "alias"
    /\ rag_identifier = SomeStr("unknown")
    /\ DOMAIN AuthorizationTable # {}
    /\ ragOutcome.kind = "RagUnauthorizedError"

\* the raw entry of the tenant's playbook_configs under a name
SourcePlaybook(name) == ItemsGet(TenantData.playbook_configs, name)
\* the entry carries a status and that status coerces to false
StatusCoercesFalse(entry) ==
    /\ entry.t = "dict"
    /\ "status" \in DOMAIN entry.v
    /\ ~_is_truthy(entry.v["status"])

\* C4: when playbook_name decides, a name without a target in the playbook
\* table fails with RagNotFoundError, a name with a target whose source
\* playbook's status coerces to false fails with RagConfigurationError, and
\* a target is returned only for a playbook in the table that is active.
C4_PlaybookBranch ==
    (RagDone /\ TenantExists /\ Deciding = "playbook") =>
        LET name == playbook_name[1]
            inTable == name \in Keys(PlaybookTable)
        IN /\ ~inTable =>
                ragOutcome.kind = "RagNotFoundError" /\ ragOutcome.target = <<>>
           /\ (inTable /\ StatusCoercesFalse(SourcePlaybook(name))) =>
                ragOutcome.kind = "RagConfigurationError" /\ ragOutcome.target = <<>>
           /\ ragOutcome.kind = "target" =>
                /\ inTable
                /\ ~StatusCoercesFalse(SourcePlaybook(name))
                /\ ragOutcome.target[1] = ItemsGet(PlaybookTable, name)

\* a playbook with a store id and status "false" was named
C4_Witness ==
    /\ RagDone /\ TenantExists /\ Deciding = "playbook"
    /\ playbook_name[1] \in Keys(PlaybookTable)
    /\ StatusCoercesFalse(SourcePlaybook(playbook_name[1]))
    /\ ragOutcome.kind = "RagConfigurationError"

\* the second call, by the target's own id, was made
CalledByOwnId == byIdOutcome # NoOutcome

\* C21 as stated: when an alias or a playbook name yields a target T, the
\* call with explicit_store_id = T.data_store_id succeeds and returns the
\* same T, with the same location, project_id and collection_id, also when
\* several entries declare the same store id.
C21_ReachableByOwnId ==
    CalledByOwnId =>
        /\ byIdOutcome.kind = "target"
        /\ byIdOutcome.target = ragOutcome.target

\* a field of a mapping is set: present, not null and not empty
IsSet(entry, field) ==
    /\ field \in DOMAIN entry.v
    /\ entry.v[field] \notin {VNone, VStr("")}
\* the value of the first of two fields that is set, else a default
FirstSet(entry, first, second, default) ==
    IF IsSet(entry, first) THEN entry.v[first]
    ELSE IF IsSet(entry, second) THEN entry.v[second]
    ELSE default
\* the entry is a mapping and one of its two store-id fields is set
HasStoreId(entry, first, second) ==
    entry.t = "dict" /\ (IsSet(entry, first) \/ IsSet(entry, second))
\* the keys of a map whose entries contribute a target
Contributing(items, first, second) ==
    {items[i].k : i \in {j \in DOMAIN items : HasStoreId(items[j].v, first, second)}}
StoreIdsOf(table) == {table[i].v.data_store_id.v : i \in DOMAIN table}

\* C26: in the lookup tables a playbook entry's store id is rag_datastore_id
\* if set and otherwise rag_id, its location rag_location if set, else
\* rag_region, else the service default; a rag_config entry's store id is
\* data_store_id if set and otherwise rag_datastore_id; an entry that is no
\* mapping or has no store id contributes no target to any table.
C26_TablesFromEntries ==
    (RagDone /\ TenantExists) =>
      LET playbooks == TenantData.playbook_configs
          rags == TenantData.rag_configs
          playbook_targets == _extract_targets_from_playbooks(playbooks)
          rag_targets == _extract_targets_from_rag_configs(rags)
      IN /\ Keys(playbook_targets) =
              Contributing(playbooks, "rag_datastore_id", "rag_id")
         /\ Keys(rag_targets) =
              Contributing(rags, "data_store_id", "rag_datastore_id")
         /\ \A name \in Keys(playbook_targets) :
              LET entry == ItemsGet(playbooks, name)
                  target == ItemsGet(playbook_targets, name)
              IN /\ target.data_store_id =
                      FirstSet(entry, "rag_datastore_id", "rag_id", VNone)
                 /\ target.location =
                      FirstSet(entry, "rag_location", "rag_region", default_location)
         /\ \A alias \in Keys(rag_targets) :
              ItemsGet(rag_targets, alias).data_store_id =
                FirstSet(ItemsGet(rags, alias), "data_store_id",
                         "rag_datastore_id", VNone)
         /\ DOMAIN AllowedTargets(playbook_targets, rag_targets) =
              Keys(playbook_targets) \cup Keys(rag_targets)
              \cup StoreIdsOf(playbook_targets) \cup StoreIdsOf(rag_targets)
         /\ (ragOutcome.kind = "target" /\ ragOutcome.by = "playbook") =>
              ragOutcome.target[1] = ItemsGet(playbook_targets, playbook_name[1])

\* a playbook with rag_datastore_id ds2, rag_id ds1 and rag_location us was
\* resolved by its name, next to an entry without a store id
C26_Witness ==
    /\ RagDone /\ TenantExists /\ ragOutcome.kind = "target"
    /\ ragOutcome.by = "playbook"
    /\ ragOutcome.target[1].data_store_id = VStr("ds2")
    /\ ragOutcome.target[1].location = VStr("us")
    /\ Keys(TenantData.playbook_configs) # Keys(PlaybookTable)

\* the entries of the tenant that yield the target t: playbooks whose status
\* coerces to false, and all others (other playbooks and rag_configs)
InactiveSources(t) ==
    {i \in DOMAIN TenantData.playbook_configs :
       /\ PlaybookTargetOf(TenantData.playbook_configs[i].v) = <<t>>
       /\ StatusCoercesFalse(TenantData.playbook_configs[i].v)}
OtherSources(t) ==
    {<<"playbook", i>> : i \in
       {j \in DOMAIN TenantData.playbook_configs :
          /\ PlaybookTargetOf(TenantData.playbook_configs[j].v) = <<t>>
          /\ ~StatusCoercesFalse(TenantData.playbook_configs[j].v)}}
    \cup
    {<<"rag", i>> : i \in
       {j \in DOMAIN TenantData.rag_configs :
          RagConfigTargetOf(TenantData.rag_configs[j].v) = <<t>>}}

\* C27 as stated: no call returns the target of a playbook whose status
\* coerces to false, whichever selector is used: a returned target is not
\* one that only inactive playbooks of the tenant yield.
C27_InactiveNeverReturned ==
    (RagDone /\ TenantExists /\ ragOutcome.kind = "target") =>
        ~(InactiveSources(ragOutcome.target[1]) # {}
          /\ OtherSources(ragOutcome.target[1]) = {})

-----------------------------------------------------------------------------
(* Properties of execute_business_routing, checked under Spec (C5 to C9)  *)
(* and under SpecParams (C12 to C16)                                      *)

Range(q) == {q[i] : i \in DOMAIN q}
RouteDone == pc = "done"
ContactFound == found.contact_doc # <<>>
\* the tenant's raw playbook entry for a funnel, None when there is none
TenantPlaybook(funnel) ==
    IF tenant_id \in DOMAIN tenants
    THEN ItemsGet(tenants[tenant_id].playbook_configs, funnel)
    ELSE VNone

\* the stages an invocation passes before and with the agent call
StagesToAgent ==
    <<"firestore_client", "contact_found", "funnel_derived", "playbook_fetched",
      "playbook_active", "params_built", "request_built", "detect_intent">>

\* C5: detect_intent is called at most once per invocation, and only after
\* a contact record was found, the funnel was derived from its status, the
\* tenant's playbook entry for that funnel was fetched and is an active
\* mapping, and the session parameters were built, in this order; an
\* inactive playbook ends the invocation without an agent call.
C5_AgentCallOrder ==
    /\ Len(agentCalls) <= 1
    /\ "detect_intent" \in Range(trace) <=> Len(agentCalls) = 1
    /\ Len(agentCalls) = 1 =>
         /\ trace = StagesToAgent
         /\ ContactFound
         /\ status = DictGet(found.contact_doc[1], "status", VStr("bdr_inbound"))
         /\ funnel_id = IF status.t = "str" /\ StartsWith(status.v, "sdr_")
                        THEN "core_sdr" ELSE "core_bdr"
         /\ playbook_config_to_use = TenantPlaybook(funnel_id)
         /\ playbook_config_to_use.t = "dict"
         /\ "status" \in DOMAIN playbook_config_to_use.v
         /\ _to_bool(playbook_config_to_use.v["status"])
         /\ "playbook_name" \in DOMAIN session_params
         /\ agentCalls[1] = struct_params
    /\ (RouteDone /\ "playbook_fetched" \in Range(trace)
        /\ "status" \in DOMAIN playbook_config_to_use.v
        /\ ~_to_bool(playbook_config_to_use.v["status"])) =>
         agentCalls = <<>> /\ result = ReturnedNone

\* the agent was called and replied
C5_Witness ==
    /\ RouteDone /\ Len(agentCalls) = 1 /\ result = ReturnedText("reply")
    /\ funnel_id = "core_sdr"

\* C6: the probes go through variations(normalize(raw_user_id)) in
\* sequence order; the first candidate whose record is found to exist is
\* returned together with its key, and no candidate after it is probed.
C6_ProbeOrder ==
    LET c == Candidates(user_id)
        n == Len(probes)
    IN /\ n <= Len(c)
       /\ \A i \in DOMAIN probes :
            /\ probes[i].key = c[i]
            /\ probes[i].result = "exists" =>
                 /\ i = n
                 /\ c[i] \in DOMAIN contacts
                 /\ found = FoundAt(c[i], contacts[c[i]])
            /\ probes[i].result = "missing" => c[i] \notin DOMAIN contacts
       /\ ContactFound => n > 0 /\ probes[n].result = "exists"
       /\ (ContactFound /\ \A i \in DOMAIN probes : probes[i].result # "raised") =>
            \A j \in 1..(n - 1) : c[j] \notin DOMAIN contacts

\* the second candidate matched and a later candidate that also has a
\* record was not probed
C6_Witness ==
    /\ ContactFound /\ Len(probes) = 2 /\ probes[1].result = "missing"
    /\ Len(variations) = 4 /\ variations[3] \in DOMAIN contacts

\* C7: a probe that raises counts as "not found" for that candidate: the
\* loop goes on to the next candidate, a record under a later candidate is
\* still returned, and the failure does not end the invocation.
C7_ProbeFailureSkipped ==
    LET c == Candidates(user_id)
        n == Len(probes)
    IN /\ \A i \in DOMAIN probes :
            probes[i].result = "raised" =>
              IF i < Len(c)
              THEN n > i \/ (pc = "find" /\ idx = i + 1)
              ELSE found = FoundNothing /\ stopped = "contact_missing"
       /\ found.state = "returned" =>
            LET ok == {j \in DOMAIN probes :
                         probes[j].result # "raised" /\ c[j] \in DOMAIN contacts}
            IN IF ok = {}
               THEN found = FoundNothing /\ n = Len(c)
               ELSE \E j \in ok : found = FoundAt(c[j], contacts[c[j]])

\* the first probe raised although a record exists under its key, and the
\* record under a later candidate was returned
C7_Witness ==
    /\ Len(probes) >= 3 /\ probes[1].result = "raised"
    /\ probes[1].key \in DOMAIN contacts
    /\ ContactFound /\ found.found_phone_id = SomeStr(probes[Len(probes)].key)

\* C8: when no candidate key has a contact record, _find_contact_by_phone
\* returns (None, None) and execute_business_routing returns None without
\* calling the agent.
C8_MissEndsWithoutAgent ==
    (\A k \in Range(Candidates(user_id)) : k \notin DOMAIN contacts) =>
        /\ agentCalls = <<>>
        /\ ~ContactFound
        /\ RouteDone => result = ReturnedNone
        /\ (RouteDone /\ trace # <<>>) =>
             found = FoundNothing /\ stopped = "contact_missing"

\* every candidate was probed without a failure, none has a record, while
\* the collection holds records under other keys
C8_Witness ==
    /\ RouteDone /\ stopped = "contact_missing" /\ found = FoundNothing
    /\ Len(probes) = Len(variations)
    /\ \A i \in DOMAIN probes : probes[i].result = "missing"
    /\ Cardinality(DOMAIN contacts) = 2

\* C9 as stated: a playbook entry without a status key is treated as
\* active: for a found contact and such an entry the invocation passes the
\* activation check and is not ended as inactive.
C9_NoStatusIsActive ==
    (RouteDone /\ ContactFound /\ playbook_config_to_use.t = "dict"
     /\ "status" \notin DOMAIN playbook_config_to_use.v) =>
        stopped # "inactive" /\ "playbook_active" \in Range(trace)

\* the control fields of a playbook entry, as the ignore-set names them
ControlFields ==
    {"core_active", "active", "enabled", "status", "is_active", "core_enabled",
     "playbook_active"}
IsControlField(key) == \E f \in ControlFields : StrLower(key) = f
ParamsBuilt == "params_built" \in Range(trace)
RequestBuilt == "request_built" \in Range(trace)

\* C12: the session parameters hold playbook_<key>, the key spelled as in
\* the entry, for every entry key with a non-null value whose lowercase form
\* is outside the ignore-set, and no playbook_<key> for an entry key whose
\* lowercase form is in the ignore-set; the same holds of the parameters
\* sent to the agent.
C12_ControlFieldsNotForwarded ==
    ParamsBuilt =>
      \A key \in DOMAIN playbook_config_to_use.v :
        LET name == "playbook_" \o key
            value == playbook_config_to_use.v[key]
        IN /\ (~IsControlField(key) /\ value # VNone) =>
                /\ name \in DOMAIN session_params
                /\ session_params[name] = value
                /\ RequestBuilt => name \in DOMAIN struct_params
           /\ IsControlField(key) =>
                /\ name \notin DOMAIN session_params
                /\ name \notin DOMAIN struct_params
                /\ \A i \in DOMAIN agentCalls : name \notin DOMAIN agentCalls[i]

\* an entry with the control fields Status, ACTIVE and Is_Active and the
\* payload fields Tone and tone was sent to the agent
C12_Witness ==
    /\ Len(agentCalls) = 1
    /\ {"Status", "ACTIVE", "Is_Active", "Tone", "tone"}
         \subseteq DOMAIN playbook_config_to_use.v
    /\ {"playbook_Tone", "playbook_tone"} \subseteq DOMAIN agentCalls[1]

\* the value of a contact field, or the default FASE 3 gives it
ContactValue(field, default) ==
    IF field \in DOMAIN found.contact_doc[1]
    THEN found.contact_doc[1][field] ELSE default

\* C13: a key collision is resolved in favour of the later source in the
\* order tenant_id, channel_id, user_id, playbook_name = funnel_id,
\* playbook_* fields, contact fields: an entry key `name` replaces the value
\* of playbook_name, and status, score, context_score, name and source_list
\* always hold the contact's values, never a playbook field.
C13_LaterSourceWins ==
    ParamsBuilt =>
      LET cfg == playbook_config_to_use.v
      IN /\ session_params["tenant_id"] = VStr(tenant_id)
         /\ session_params["user_id"] = VStr(user_id)
         /\ session_params["playbook_name"] =
              IF "name" \in DOMAIN cfg THEN cfg["name"] ELSE VStr(funnel_id)
         /\ session_params["status"] = ContactValue("status", VStr("bdr_inbound"))
         /\ session_params["score"] = ContactValue("score", VInt(0))
         /\ session_params["context_score"] =
              ContactValue("context_score", VStr("Lead inbound (BDR Padrão)"))
         /\ session_params["name"] = ContactValue("name", VStr(""))
         /\ session_params["source_list"] = ContactValue("source_list", VStr(""))

\* an entry with the keys name, score and Status met a contact named Ana:
\* playbook_name holds the entry's name, name and score the contact's
C13_Witness ==
    /\ ParamsBuilt
    /\ {"name", "score", "Status"} \subseteq DOMAIN playbook_config_to_use.v
    /\ session_params["playbook_name"] = VStr("Inbound BDR")
    /\ session_params["name"] = VStr("Ana")
    /\ session_params["score"] = VInt(10)
    /\ session_params["playbook_score"] = VInt(7)

\* C14 as stated: every boolean among the session parameters is sent to the
\* agent as the lowercase string "true" or "false".
C14_BooleansLowercase ==
    RequestBuilt =>
      \A key \in DOMAIN session_params :
        session_params[key].t = "bool" =>
          /\ key \in DOMAIN struct_params
          /\ struct_params[key] = IF session_params[key].v THEN "true" ELSE "false"

\* C15: the parameters sent to the agent have no key whose value among the
\* session parameters was None (the key is dropped, not sent as an empty
\* string), have every other key, and every value of theirs is a string.
C15_NoneDroppedAllStrings ==
    /\ RequestBuilt =>
         /\ DOMAIN struct_params =
              {key \in DOMAIN session_params : session_params[key] # VNone}
         /\ \A key \in DOMAIN struct_params : struct_params[key] \in STRING
    /\ \A i \in DOMAIN agentCalls : agentCalls[i] = struct_params

\* a playbook field and a contact field were None and the request went out
\* without them, the list and the number as text
C15_Witness ==
    /\ Len(agentCalls) = 1
    /\ session_params["name"] = VNone
    /\ "playbook_notes" \in DOMAIN session_params
    /\ session_params["playbook_notes"] = VNone
    /\ {"name", "playbook_notes"} \cap DOMAIN agentCalls[1] = {}
    /\ agentCalls[1]["source_list"] = "[\"crm\", \"ads\"]"
    /\ agentCalls[1]["score"] = "7.5"

FunnelDerived == "funnel_derived" \in Range(trace)
\* the status is a string, or null
StatusIsText == status.t \in {"str", "none"}
\* the status is non-empty and starts with "sdr_"
SdrStatus ==
    /\ status.t = "str" /\ status.v # ""
    /\ Len(status.v) >= 4 /\ SubSeq(status.v, 1, 4) = "sdr_"
FunnelRule ==
    "contact_found" \in Range(trace) =>
      /\ status = ContactValue("status", VStr("bdr_inbound"))
      /\ StatusIsText =>
           /\ FunnelDerived
           /\ funnel_id = IF SdrStatus THEN "core_sdr" ELSE "core_bdr"
\* the step that derives the funnel writes no document and calls nobody
FunnelStepIsPure ==
    pc = "contact" =>
      /\ UNCHANGED <<storeVars, ragVars, boolVars, phoneVars, edgeVars, agentCalls, probes, found>>
      /\ result' = result

\* C16: the funnel derived from a contact is core_sdr exactly when the
\* contact's status is non-empty and starts with "sdr_", and core_bdr in
\* every other case, an empty status and a record without a status field
\* included; deriving it has no side effect.
C16_FunnelOfStatus == []FunnelRule /\ [][FunnelStepIsPure]_vars

\* the funnel of a contact whose status is just the prefix
C16_Witness ==
    FunnelDerived /\ status = VStr("sdr_") /\ funnel_id = "core_sdr"

\* the invocation ended at one of the checks of lines 278-301: the tenant
\* document is absent, playbook_configs is empty, it has no entry for the
\* funnel, or the entry is no mapping
ConfigurationFailures ==
    {"tenant_missing", "no_playbook_configs", "no_playbook", "not_mapping"}
\* what the caller receives after a contact miss, an inactive playbook and
\* an agent reply without text
SilentResult == ReturnedNone

\* C22 as stated: a failure of the pipeline other than a probe failure
\* reaches the caller as an outcome that names its kind (NotFound for an
\* absent tenant, ConfigurationError for the playbook_configs failures), and
\* differs from the outcome of a contact miss, of an inactive playbook and
\* of a run in which the agent returned no text.
C22_FailuresAreExplicit ==
    (RouteDone /\ stopped \in ConfigurationFailures) => result # SilentResult

\* something raised inside the invocation
RaisedInside == stopped \in {"exception", "agent_error"}

\* C23: execute_business_routing never raises: whatever fails inside it,
\* the invocation ends by returning a reply text or None; after an
\* exception it returns None.
C23_NeverRaises ==
    /\ result.state \in {"pending", "returned"}
    /\ ~RouteDone => result = Pending
    /\ RouteDone => result.state = "returned"
    /\ (RouteDone /\ RaisedInside) => result = ReturnedNone

\* a contact whose status is a number: startswith raised and None came back
C23_Witness ==
    /\ RouteDone /\ stopped = "exception" /\ ContactFound
    /\ status = VInt(5) /\ result = ReturnedNone

\* the key a default record is created under: the normalized raw id
DefaultContactKey == _normalize_phone_number(user_id)
DefaultContact ==
    "status" :> VStr("bdr_inbound") @@ "score" :> VInt(0)
    @@ "context_score" :> VStr("Lead inbound (BDR Padrão)")

\* C24 as stated: when no candidate key matches a contact record, a default
\* record is created under the normalized raw id with status bdr_inbound,
\* score 0 and context_score "Lead inbound (BDR Padrão)", so that a record
\* exists once the first message of an identity has been processed.
C24_DefaultContactCreated ==
    (RouteDone /\ found = FoundNothing) =>
        /\ DefaultContactKey \in DOMAIN contacts
        /\ \A f \in DOMAIN DefaultContact :
             /\ f \in DOMAIN contacts[DefaultContactKey]
             /\ contacts[DefaultContactKey][f] = DefaultContact[f]

\* no step removes or changes a contact record or a tenant document
StoreStepIsReadOnly ==
    /\ tenants' = tenants
    /\ tenant_id' = tenant_id
    /\ \A key \in DOMAIN contacts :
         key \in DOMAIN contacts' /\ contacts'[key] = contacts[key]

\* C25: no step of the routing pipeline changes an existing contact record
\* or a tenant document, whichever path the invocation takes.
C25_StoreUnchanged == [][StoreStepIsReadOnly]_vars

\* an invocation went through to the agent with two contact records and the
\* tenant document in the store
C25_Witness ==
    /\ RouteDone /\ Len(agentCalls) = 1
    /\ Cardinality(DOMAIN contacts) = 2 /\ TenantExists

-----------------------------------------------------------------------------
(* Properties of the activation coercion, checked under SpecBool *)

TrueWords == {"true", "1", "yes", "sim", "y", "on"}

\* a and b are the same string up to letter case
SameIgnoringCase(a, b) ==
    /\ Len(a) = Len(b)
    /\ \A i \in 1..Len(a) : LowerChar(CharAt(a, i)) = LowerChar(CharAt(b, i))

\* the string without the white space before its first and after its last
\* other character
Trimmed(x) ==
    LET inner == {i \in 1..Len(x) : ~IsSpace(CharAt(x, i))}
    IN IF inner = {} THEN ""
       ELSE SubSeq(x, CHOOSE i \in inner : \A j \in inner : i <= j,
                      CHOOSE i \in inner : \A j \in inner : i >= j)

\* the coercion of C10, with the string that is compared given apart
Coerced(value, compared) ==
    CASE value.t = "bool" -> value.v
      [] value.t \in {"int", "float"} -> value.v # 0
      [] value.t = "str" -> \E w \in TrueWords : SameIgnoringCase(compared, w)
      [] OTHER -> FALSE

BothReturned == boolOut.to_bool # <<>> /\ boolOut.is_truthy # <<>>

\* C10 as stated: a boolean is returned unchanged, a number is true exactly
\* when it is non-zero, a string is true exactly when it is, compared
\* case-insensitively, one of true, 1, yes, sim, y, on, and every other
\* value is false.
C10_Original ==
    BothReturned =>
        LET expected == Coerced(boolIn, IF boolIn.t = "str" THEN boolIn.v ELSE "")
        IN boolOut.to_bool = <<expected>> /\ boolOut.is_truthy = <<expected>>

\* C10 (amended): as stated, except that a string is compared after the
\* white space around it is stripped; "false" is inactive and 1 is active.
C10_Coercion ==
    /\ boolOut.to_bool # <<>> =>
         /\ boolOut.to_bool =
              <<Coerced(boolIn, IF boolIn.t = "str" THEN Trimmed(boolIn.v) ELSE "")>>
         /\ boolIn = VStr("false") => boolOut.to_bool = <<FALSE>>
         /\ boolIn = VInt(1) => boolOut.to_bool = <<TRUE>>
    /\ boolOut.is_truthy # <<>> =>
         /\ boolOut.is_truthy =
              <<Coerced(boolIn, IF boolIn.t = "str" THEN Trimmed(boolIn.v) ELSE "")>>
         /\ boolIn = VStr("false") => boolOut.is_truthy = <<FALSE>>
         /\ boolIn = VInt(1) => boolOut.is_truthy = <<TRUE>>

\* a true word in mixed case with white space around it was coerced to true
\* by both functions
C10_Witness ==
    /\ boolIn = VStr(" Yes ")
    /\ boolOut = [to_bool |-> <<TRUE>>, is_truthy |-> <<TRUE>>]

-----------------------------------------------------------------------------
(* Properties of the router and the resolver on one document, checked      *)
(* under SpecBoth                                                           *)

\* the router reached its activation check (lines 305-311)
RouterDecided == RouteDone /\ "playbook_fetched" \in Range(trace)
RouterActive == "playbook_active" \in Range(trace)
\* the resolver reached its activation check (lines 371-375)
ResolverDecided ==
    /\ RagDone /\ ragOutcome.by = "playbook"
    /\ ragOutcome.kind \in {"target", "RagConfigurationError"}
ResolverActive == ragOutcome.kind = "target"

\* C11 as stated: for every playbook entry, one without a status key and
\* one with a null status included, the resolver's activation decision on
\* the playbook_name path equals the decision of the routing pipeline.
C11_SameActivation ==
    (RouterDecided /\ ResolverDecided) => (RouterActive <=> ResolverActive)

-----------------------------------------------------------------------------
(* Properties of the phone functions, checked under SpecPhone *)

Generated == phoneOut.variations # <<>>
\* variations(phoneIn)
Variations == phoneOut.variations[1]
\* the key is 12 characters long and starts with 55
ShortBrazilKey == Len(phoneIn) = 12 /\ SubSeq(phoneIn, 1, 2) = "55"
\* the key with the digit 9 put after its first four characters
WithNinth == SubSeq(phoneIn, 1, 4) \o "9" \o SubSeq(phoneIn, 5, Len(phoneIn))
\* where in a sequence an entry is, 0 when it is not there
PositionOf(q, e) ==
    IF \E i \in DOMAIN q : q[i] = e THEN CHOOSE i \in DOMAIN q : q[i] = e ELSE 0
\* the entries of the variations that are thirteen characters long
ThirteenLong == {i \in DOMAIN Variations : Len(Variations[i]) = 13}
HasNoPlus(s) == s = "" \/ SubSeq(s, 1, 1) # "+"

\* C17 as stated: for a 12-character key that starts with "55" the
\* variations hold exactly one 13-character entry, the key with 9 inserted
\* at index 4, followed by that entry prefixed with "+", both after the key
\* and its "+"-prefixed form.
C17_Original ==
    (Generated /\ ShortBrazilKey) =>
        /\ Cardinality(ThirteenLong) = 1
        /\ \A i \in ThirteenLong : Variations[i] = WithNinth
        /\ Variations = <<phoneIn, "+" \o phoneIn, WithNinth, "+" \o WithNinth>>

\* C17 (amended): exactly one entry of 13 characters without a leading "+"
\* (the other entry of 13 characters is the key itself prefixed with "+"),
\* namely the key with 9 inserted at index 4; it is followed by its
\* "+"-prefixed form and both come after the key and the key's "+" form.
C17_NinthDigitInserted ==
    (Generated /\ ShortBrazilKey) =>
        /\ {i \in ThirteenLong : HasNoPlus(Variations[i])}
             = {PositionOf(Variations, WithNinth)}
        /\ PositionOf(Variations, "+" \o WithNinth)
             = PositionOf(Variations, WithNinth) + 1
        /\ PositionOf(Variations, phoneIn) < PositionOf(Variations, WithNinth)
        /\ PositionOf(Variations, "+" \o phoneIn) < PositionOf(Variations, WithNinth)
        /\ PositionOf(Variations, phoneIn) > 0
        /\ PositionOf(Variations, "+" \o phoneIn) > 0

\* the variations of 555195357522
C17_Witness ==
    /\ phoneIn = "555195357522"
    /\ phoneOut.variations =
         << <<"555195357522", "+555195357522", "5551995357522", "+5551995357522">> >>

\* the key is 13 characters long, starts with 55 and has a 9 at index 4
LongBrazilKey ==
    Len(phoneIn) = 13 /\ SubSeq(phoneIn, 1, 2) = "55" /\ SubSeq(phoneIn, 5, 5) = "9"
\* the key without the character at index 4
WithoutNinth == SubSeq(phoneIn, 1, 4) \o SubSeq(phoneIn, 6, Len(phoneIn))

C19_NoDuplicatesKeyFirst ==
    Generated =>
        /\ \A i, j \in DOMAIN Variations : Variations[i] = Variations[j] => i = j
        /\ Len(Variations) >= 2
        /\ Variations[1] = phoneIn
        /\ Variations[2] = "+" \o phoneIn

\* four distinct variations of a key made of one digit mostly
C19_Witness ==
    /\ Generated /\ phoneIn = "5519999999999"
    /\ Len(Variations) = 4 /\ Cardinality({Variations[i] : i \in 1..4}) = 4

\* s neither begins nor ends with white space
HasNoSpaceAround(s) ==
    s = "" \/ (~IsSpace(SubSeq(s, 1, 1)) /\ ~IsSpace(SubSeq(s, Len(s), Len(s))))

\* C20 as stated: normalize is idempotent, normalize(normalize(x)) =
\* normalize(x) for every raw identity x, and normalize(x) has neither a
\* leading "+" nor white space around it.
C20_NormalizeIdempotent ==
    /\ phoneOut.normalized # <<>> =>
         /\ HasNoPlus(phoneOut.normalized[1])
         /\ HasNoSpaceAround(phoneOut.normalized[1])
    /\ phoneOut.renormalized # <<>> =>
         phoneOut.renormalized = phoneOut.normalized


-----------------------------------------------------------------------------
(* RagSearchService.run_query: key verification, resolution, search *)

\* the key configuration: env is RAG_API_KEY and secret_name is
\* RAG_API_SECRET_NAME (Optional[str], <<>> when unset), project_id is the
\* service's project ("" when unset), payload is what the secret manager
\* holds under that name (<<>> when reading it fails)
KeyConfig(env, secret_name, project_id, payload) ==
    [env |-> env, secret_name |-> secret_name, project_id |-> project_id,
     payload |-> payload]

\* _load_api_key: <<the expected key>>, or <<>> when it raises
\* RagConfigurationError
_load_api_key(cfg, cached) ==
    IF cached # ""
    THEN <<cached>>
    ELSE IF cfg.secret_name # <<>> /\ cfg.secret_name[1] # ""
    THEN IF cfg.project_id = "" \/ cfg.payload = <<>>
         THEN <<>>
         ELSE IF StrStrip(cfg.payload[1]) = ""
         THEN <<>>
         ELSE <<StrStrip(cfg.payload[1])>>
    ELSE IF cfg.env = <<>> \/ cfg.env[1] = ""
    THEN <<>>
    ELSE cfg.env

\* the supplied key compared as it came
verify_api_key_as_supplied(provided_key, cfg, cached) ==
    IF provided_key = NoneStr
    THEN "RagUnauthorizedError"
    ELSE LET expected == _load_api_key(cfg, cached)
         IN IF expected = <<>>
            THEN "RagConfigurationError"
            ELSE IF provided_key[1] # expected[1]
            THEN "RagUnauthorizedError"
            ELSE "verified"

\* verify_api_key: "verified" or the exception class raised
verify_api_key(provided_key, cfg, cached) ==
    IF provided_key = NoneStr
    THEN "RagUnauthorizedError"
    ELSE LET expected == _load_api_key(cfg, cached)
         IN IF expected = <<>>
            THEN "RagConfigurationError"
            ELSE IF StrStrip(provided_key[1]) # expected[1]
            THEN "RagUnauthorizedError"
            ELSE "verified"

QueryEnded(kind, at) == [kind |-> kind, at |-> at]

\* run_query, first statement: self.verify_api_key(api_key)
VerifyApiKey ==
    /\ queryPc = "verify"
    /\ LET verdict == verify_api_key(api_key, keyConfig, _cached_api_key)
           expected == _load_api_key(keyConfig, _cached_api_key)
       IN /\ _cached_api_key' =
               IF api_key # NoneStr /\ expected # <<>>
               THEN expected[1]
               ELSE _cached_api_key
          /\ IF verdict = "verified"
             THEN queryPc' = "resolve" /\ UNCHANGED queryOutcome
             ELSE /\ queryPc' = "done"
                  /\ queryOutcome' = QueryEnded(verdict, "verify")
    /\ UNCHANGED <<api_key, keyConfig, query, searchCalls, storeVars, ragVars,
                   routeVars, boolVars, phoneVars, webhookVars, pushVars>>

\* run_query, second statement: target = self.resolve_store_target(...),
\* whose exception ends run_query
QueryResolveStoreTarget ==
    /\ queryPc = "resolve"
    /\ ragOutcome' = resolve_store_target(tenants, tenant_id, playbook_name,
                                          rag_identifier, explicit_data_store_id)
    /\ ragPc' = "done"
    /\ IF ragOutcome'.kind = "target"
       THEN queryPc' = "search" /\ UNCHANGED queryOutcome
       ELSE /\ queryPc' = "done"
            /\ queryOutcome' = QueryEnded(ragOutcome'.kind, "resolve")
    /\ UNCHANGED <<api_key, keyConfig, _cached_api_key, query, searchCalls,
                   storeVars, playbook_name, rag_identifier,
                   explicit_data_store_id, byIdOutcome, routeVars, boolVars,
                   phoneVars, webhookVars, pushVars>>

\* what the search client may do with a request
SearchReplies == {"no_client", "raises", "summary", "no_summary"}

\* run_query, last statement: return self.search(target=target, query=query)
Search ==
    /\ queryPc = "search"
    /\ queryPc' = "done"
    /\ IF query = "" \/ StrStrip(query) = ""
       THEN /\ queryOutcome' = QueryEnded("RagConfigurationError", "search")
            /\ UNCHANGED searchCalls
       ELSE \E reply \in SearchReplies :
              IF reply = "no_client"
              THEN /\ queryOutcome' = QueryEnded("Exception", "search")
                   /\ UNCHANGED searchCalls
              ELSE /\ searchCalls' =
                        Append(searchCalls,
                               [data_store_id |->
                                    ragOutcome.target[1].data_store_id,
                                query |-> query])
                   /\ queryOutcome' =
                        IF reply = "raises"
                        THEN QueryEnded("RagServiceError", "search")
                        ELSE QueryEnded("result", "search")
    /\ UNCHANGED <<api_key, keyConfig, _cached_api_key, query, storeVars,
                   ragVars, routeVars, boolVars, phoneVars, webhookVars,
                   pushVars>>

-----------------------------------------------------------------------------
(* The keys, configurations and queries run_query is exercised on *)

SuppliedKeys == {NoneStr, SomeStr(""), SomeStr("secret"), SomeStr(" secret "),
                 SomeStr("secret\n"), SomeStr("wrong"), SomeStr("Secret")}

KeyConfigs ==
    { KeyConfig(NoneStr, NoneStr, "", NoneStr),
      KeyConfig(SomeStr(""), SomeStr(""), "proj", NoneStr),
      KeyConfig(SomeStr("secret"), NoneStr, "proj", NoneStr),
      KeyConfig(SomeStr(" secret "), NoneStr, "proj", NoneStr),
      KeyConfig(SomeStr("wrong"), SomeStr("rag-key"), "proj", SomeStr("secret\n")),
      KeyConfig(SomeStr("secret"), SomeStr("rag-key"), "proj", NoneStr),
      KeyConfig(SomeStr("secret"), SomeStr("rag-key"), "", SomeStr("secret")),
      KeyConfig(NoneStr, SomeStr("rag-key"), "proj", SomeStr("  ")) }

Queries == {"", "  ", "preco"}

QueryTenantDoc ==
    [playbook_configs |->
         <<[k |-> "core_sdr",
            v |-> VDict("rag_id" :> VStr("ds1") @@ "status" :> VBool(TRUE))],
           [k |-> "core_bdr",
            v |-> VDict("rag_id" :> VStr("ds2") @@ "status" :> VStr("off"))]>>,
     rag_configs |->
         <<[k |-> "default",
            v |-> VDict("data_store_id" :> VStr("ds1")
                        @@ "location" :> VStr("us"))]>>]

\* the selectors of a query: <<playbook_name, rag_identifier, data_store_id>>
QuerySelectors ==
    { <<NoneStr, NoneStr, NoneStr>>,
      <<NoneStr, NoneStr, SomeStr("ds1")>>,
      <<NoneStr, NoneStr, SomeStr("dsX")>>,
      <<SomeStr("core_sdr"), NoneStr, NoneStr>>,
      <<SomeStr("core_bdr"), NoneStr, NoneStr>>,
      <<NoneStr, SomeStr("default"), NoneStr>> }

InitQuery ==
    /\ tenant_id \in {"t1", "t3"}
    /\ tenants = ("t1" :> QueryTenantDoc @@ "t2" :> OtherTenantDoc)
    /\ contacts = <<>>
    /\ \E sel \in QuerySelectors :
         /\ playbook_name = sel[1]
         /\ rag_identifier = sel[2]
         /\ explicit_data_store_id = sel[3]
    /\ ragPc = "idle" /\ ragOutcome = NoOutcome /\ byIdOutcome = NoOutcome
    /\ api_key \in SuppliedKeys
    /\ keyConfig \in KeyConfigs
    /\ _cached_api_key \in {"", "secret"}
    /\ query \in Queries
    /\ queryPc = "verify" /\ searchCalls = <<>>
    /\ queryOutcome = NoQueryOutcome
    /\ RouteIdle
    /\ BoolIdle
    /\ PhoneIdle
    /\ WebhookIdle
    /\ PushIdle

NextQuery == VerifyApiKey \/ QueryResolveStoreTarget \/ Search

SpecQuery == InitQuery /\ [][NextQuery]_vars


-----------------------------------------------------------------------------
(* Properties of run_query, checked under SpecQuery *)

\* the key the service expects, <<>> when none can be loaded
ExpectedKey == _load_api_key(keyConfig, _cached_api_key)

\* the verification step is over
KeyChecked == queryPc \in {"resolve", "search", "done"}

\* no tenant lookup, no store-target resolution, no search
NothingPerformed ==
    ragPc = "idle" /\ ragOutcome = NoOutcome /\ searchCalls = <<>>

RejectedWith(exc) ==
    queryPc = "done" /\ queryOutcome = QueryEnded(exc, "verify")

\* the supplied key, without surrounding whitespace, is the expected one
KeyAccepted ==
    /\ api_key # NoneStr /\ ExpectedKey # <<>>
    /\ StrStrip(api_key[1]) = ExpectedKey[1]

-----------------------------------------------------------------------------
(* main.py: webhook_handler, with the handlers of src/handler *)

\* HANDLERS: the handler class registered under each platform name
HANDLERS ==
    [whatsapp |-> "MetaHandler", instagram |-> "MetaHandler",
     linkedin |-> "LinkedInHandler", meta |-> "MetaHandler"]

\* hmac.new(secret, payload, sha256).hexdigest(): the digest is kept
\* symbolic, one digest per pair of secret and payload
HexDigest(sec, payload) == "hmac[" \o sec \o "|" \o payload \o "]"

\* any header that carries the sha256= prefix accepted
verify_signature_prefix_only(payload, sig, sec) ==
    sig # "" /\ StartsWith(sig, "sha256=")

\* MetaHandler.verify_signature
verify_signature(payload, sig, sec) ==
    IF sig = ""
    THEN FALSE
    ELSE LET bare == IF StartsWith(sig, "sha256=")
                     THEN SubSeq(sig, 8, Len(sig))
                     ELSE sig
         IN bare = HexDigest(sec, payload)

\* the app secret as the secret manager holds it
AppSecret(value, readable) == [value |-> value, readable |-> readable]

WebhookAnswer(code) == webhookPc' = "done" /\ webhookStatus' = code

\* lines 90-93: handler = HANDLERS.get(platform.lower())
WebhookFindHandler ==
    /\ webhookPc = "handler"
    /\ IF StrLower(platform) \notin DOMAIN HANDLERS
       THEN WebhookAnswer(404)
       ELSE webhookPc' = "signature" /\ UNCHANGED webhookStatus
    /\ UNCHANGED <<platform, signature, body, appSecret, secret, published,
                   storeVars, ragVars, routeVars, boolVars, phoneVars,
                   queryVars, pushVars>>

\* lines 96-103: the body is read and the header looked up
WebhookReadSignature ==
    /\ webhookPc = "signature"
    /\ IF signature = NoneStr \/ signature[1] = ""
       THEN WebhookAnswer(401)
       ELSE webhookPc' = "secret" /\ UNCHANGED webhookStatus
    /\ UNCHANGED <<platform, signature, body, appSecret, secret, published,
                   storeVars, ragVars, routeVars, boolVars, phoneVars,
                   queryVars, pushVars>>

\* lines 106-110: secret = handler.get_meta_app_secret(); the LinkedIn
\* handler raises NotImplementedError, the Meta handler raises when the
\* secret cannot be read
WebhookGetSecret ==
    /\ webhookPc = "secret"
    /\ IF HANDLERS[StrLower(platform)] = "MetaHandler" /\ appSecret.readable
       THEN /\ secret' = <<appSecret.value>>
            /\ webhookPc' = "verify" /\ UNCHANGED webhookStatus
       ELSE WebhookAnswer(500) /\ UNCHANGED secret
    /\ UNCHANGED <<platform, signature, body, appSecret, published,
                   storeVars, ragVars, routeVars, boolVars, phoneVars,
                   queryVars, pushVars>>

\* lines 113-115: handler.verify_signature(body, signature, secret)
WebhookVerifySignature ==
    /\ webhookPc = "verify"
    /\ IF verify_signature(body, signature[1], secret[1])
       THEN webhookPc' = "publish" /\ UNCHANGED webhookStatus
       ELSE WebhookAnswer(401)
    /\ UNCHANGED <<platform, signature, body, appSecret, secret, published,
                   storeVars, ragVars, routeVars, boolVars, phoneVars,
                   queryVars, pushVars>>

\* lines 120-133: handler.publish_to_pubsub(body, platform); a failed
\* publication is answered 200 as well
WebhookPublish ==
    /\ webhookPc = "publish"
    /\ \E delivered \in BOOLEAN :
         published' = IF delivered
                      THEN Append(published,
                                  [payload |-> body, platform |-> platform])
                      ELSE published
    /\ WebhookAnswer(200)
    /\ UNCHANGED <<platform, signature, body, appSecret, secret,
                   storeVars, ragVars, routeVars, boolVars, phoneVars,
                   queryVars, pushVars>>

-----------------------------------------------------------------------------
(* The requests webhook_handler is exercised on *)

Platforms == {"whatsapp", "WhatsApp", "instagram", "meta", "linkedin",
              "telegram"}
Bodies == {"{}", "{entry}"}
AppSecrets == {AppSecret("s3cret", TRUE), AppSecret("s3cret", FALSE),
               AppSecret("", TRUE)}

\* the headers a sender may attach to payload b when the app secret is sec
SignaturesFor(sec, b) ==
    { NoneStr, SomeStr(""), SomeStr("sha256="), SomeStr("garbage"),
      SomeStr("sha256=" \o HexDigest(sec, b)),
      SomeStr(HexDigest(sec, b)),
      SomeStr("SHA256=" \o HexDigest(sec, b)),
      SomeStr("sha256=sha256=" \o HexDigest(sec, b)),
      SomeStr("sha256=" \o HexDigest("guess", b)),
      SomeStr("sha256=" \o HexDigest(sec, "{other}")) }

InitWebhook ==
    /\ platform \in Platforms
    /\ body \in Bodies
    /\ appSecret \in AppSecrets
    /\ signature \in SignaturesFor(appSecret.value, body)
    /\ secret = <<>> /\ webhookPc = "handler" /\ webhookStatus = 0
    /\ published = <<>>
    /\ tenant_id = "t1" /\ tenants = <<>> /\ contacts = <<>>
    /\ RagIdle
    /\ RouteIdle
    /\ BoolIdle
    /\ PhoneIdle
    /\ QueryIdle
    /\ PushIdle

NextWebhook ==
    \/ WebhookFindHandler
    \/ WebhookReadSignature
    \/ WebhookGetSecret
    \/ WebhookVerifySignature
    \/ WebhookPublish

SpecWebhook == InitWebhook /\ [][NextWebhook]_vars

-----------------------------------------------------------------------------
(* Properties of webhook_handler, checked under SpecWebhook *)

WebhookAnswered == webhookPc = "done"
Supported == StrLower(platform) \in DOMAIN HANDLERS
SignatureGiven == signature # NoneStr /\ signature[1] # ""

\* the header is the HMAC-SHA256 digest of the body under the app secret,
\* with or without the sha256= prefix
ValidSignature ==
    /\ signature # NoneStr
    /\ \E prefix \in {"", "sha256="} :
         signature[1] = prefix \o HexDigest(appSecret.value, body)

\* the handler of the platform can produce the app secret
SecretAvailable ==
    Supported /\ HANDLERS[StrLower(platform)] = "MetaHandler"
              /\ appSecret.readable

NothingPublished == published = <<>>

\* C29 as stated: a request for a supported platform whose signature is
\* missing or invalid is answered 401, a request for an unsupported platform
\* is answered 404, nothing is published in either case, and what is
\* published had a valid signature.
C29_Original ==
    /\ WebhookAnswered /\ Supported /\ ~ValidSignature
         => webhookStatus = 401 /\ NothingPublished
    /\ WebhookAnswered /\ ~Supported
         => webhookStatus = 404 /\ NothingPublished
    /\ ~NothingPublished => ValidSignature

\* C29: webhook_handler publishes a payload only after its signature header
\* was validated against the app secret.  An unsupported platform is answered
\* 404; on a supported platform a missing signature is answered 401, a
\* signature that is present while the app secret cannot be obtained is
\* answered 500, and a signature that does not match the digest of the body
\* under the app secret is answered 401; nothing is published in any of
\* these cases.  A matching signature is answered 200, and what is published
\* is the body of a request with a valid signature, once.
C29_PublishedOnlyIfValid ==
    /\ ~WebhookAnswered => NothingPublished /\ webhookStatus = 0
    /\ WebhookAnswered /\ ~Supported
         => webhookStatus = 404 /\ NothingPublished
    /\ WebhookAnswered /\ Supported /\ ~SignatureGiven
         => webhookStatus = 401 /\ NothingPublished
    /\ WebhookAnswered /\ Supported /\ SignatureGiven /\ ~SecretAvailable
         => webhookStatus = 500 /\ NothingPublished
    /\ WebhookAnswered /\ SignatureGiven /\ SecretAvailable /\ ~ValidSignature
         => webhookStatus = 401 /\ NothingPublished
    /\ WebhookAnswered /\ SecretAvailable /\ ValidSignature
         => webhookStatus = 200
    /\ ~NothingPublished
         => /\ ValidSignature /\ SecretAvailable
            /\ secret = <<appSecret.value>>
            /\ published = <<[payload |-> body, platform |-> platform]>>

\* a signed request was published
C29_Witness ==
    /\ WebhookAnswered /\ webhookStatus = 200
    /\ published = <<[payload |-> body, platform |-> platform]>>
    /\ signature = SomeStr("sha256=" \o HexDigest("s3cret", body))


-----------------------------------------------------------------------------
(* main.py: pubsub_handler, with the routers of src/router *)

\* ROUTERS: the router class registered under each platform name
ROUTERS ==
    [whatsapp |-> "MetaRouter", instagram |-> "MetaRouter",
     linkedin |-> "LinkedInRouter", meta |-> "MetaRouter"]

\* an Optional[str] that is neither None nor ""
Filled(opt) == opt # NoneStr /\ opt[1] # ""

\* the Meta payload carried in message.data: entries hold an id and changes,
\* a change holds value.metadata.phone_number_id and value.messages, a
\* message holds from, type and text.body (each <<>> when absent)
MetaMessage(from, type, text) == [from |-> from, type |-> type, text |-> text]
MetaChange(phone_number_id, messages) ==
    [phone_number_id |-> phone_number_id, messages |-> messages]
MetaEntry(id, changes) == [id |-> id, changes |-> changes]

\* MetaRouter.parse_payload on the 'message' object of a push request:
\* <<the parsed fields>>, or <<>> for None
parse_payload(message) ==
    IF message.data = <<>>
    THEN <<>>
    ELSE IF ~message.data[1].decodable
    THEN <<>>
    ELSE LET entry == message.data[1].entry
         IN IF entry = <<>>
            THEN <<>>
            ELSE LET first_entry == entry[1]
                     changes == first_entry.changes
                 IN IF changes = <<>>
                    THEN <<>>
                    ELSE LET value == changes[1]
                             channel_id == IF Filled(first_entry.id)
                                           THEN first_entry.id
                                           ELSE value.phone_number_id
                         IN IF value.messages = <<>>
                            THEN <<>>
                            ELSE LET first_message == value.messages[1]
                                     message_text ==
                                         IF first_message.type = "text"
                                         THEN first_message.text
                                         ELSE NoneStr
                                 IN IF ~(Filled(channel_id)
                                         /\ Filled(first_message.from)
                                         /\ Filled(message_text))
                                    THEN <<>>
                                    ELSE <<[channel_id |-> channel_id[1],
                                            user_id |-> first_message.from[1],
                                            message_text |-> message_text[1],
                                            phone_number_id |->
                                                value.phone_number_id]>>

\* MetaRouter.get_channel_mapping on the channel document found:
\* <<the mapping>>, or <<>> for None
get_channel_mapping(doc) ==
    IF ~doc.reachable \/ ~doc.exists
    THEN <<>>
    ELSE IF ~Filled(doc.tenant_id) \/ ~Filled(doc.credential_secret_name)
    THEN <<>>
    ELSE <<[tenant_id |-> doc.tenant_id[1],
            credential_secret_name |-> doc.credential_secret_name[1]]>>

\* a reply sent whether or not the payload named a phone_number_id
HasPhoneNumberId_unchecked(parsed) == TRUE

\* line 221: if not phone_number_id
HasPhoneNumberId(parsed) == Filled(parsed.phone_number_id)

\* every way out of the handler answers 200
PushAnswer(failure) ==
    pushPc' = "done" /\ pushStatus' = 200 /\ pushFailure' = failure

\* lines 154-175: the request is unpacked and the router chosen
PushUnpack ==
    /\ pushPc = "unpack"
    /\ IF ~request_json.json
       THEN PushAnswer("exception")
       ELSE IF request_json.message = <<>>
       THEN PushAnswer("no_message")
       ELSE LET attributes == request_json.message[1].attributes
                name == StrLower(IF attributes = NoneStr THEN "whatsapp"
                                 ELSE attributes[1])
            IN IF name \notin DOMAIN ROUTERS
               THEN PushAnswer("platform")
               ELSE pushPc' = "parse" /\ UNCHANGED <<pushStatus, pushFailure>>
    /\ UNCHANGED <<request_json, parsed_data, channel_mapping, response_text,
                   access_token, sent, storeVars, ragVars, routeVars,
                   boolVars, phoneVars, queryVars, webhookVars>>

\* the router of the request's platform
PushRouter ==
    LET attributes == request_json.message[1].attributes
    IN ROUTERS[StrLower(IF attributes = NoneStr THEN "whatsapp"
                        ELSE attributes[1])]

\* lines 178-186: router.parse_payload(request_json); the LinkedIn router
\* raises NotImplementedError, which the outer handler catches
PushParsePayload ==
    /\ pushPc = "parse"
    /\ IF PushRouter = "LinkedInRouter"
       THEN PushAnswer("exception") /\ UNCHANGED parsed_data
       ELSE LET parsed == parse_payload(request_json.message[1])
            IN IF parsed = <<>>
               THEN PushAnswer("unparseable") /\ UNCHANGED parsed_data
               ELSE /\ parsed_data' = parsed
                    /\ pushPc' = "channel"
                    /\ UNCHANGED <<pushStatus, pushFailure>>
    /\ UNCHANGED <<request_json, channel_mapping, response_text,
                   access_token, sent, storeVars, ragVars, routeVars,
                   boolVars, phoneVars, queryVars, webhookVars>>

\* the channel documents the lookup may meet
ChannelDoc(reachable, exists, tenant, credential) ==
    [reachable |-> reachable, exists |-> exists, tenant_id |-> tenant,
     credential_secret_name |-> credential]
ChannelDocs ==
    { ChannelDoc(FALSE, TRUE, SomeStr("t1"), SomeStr("wa-token")),
      ChannelDoc(TRUE, FALSE, NoneStr, NoneStr),
      ChannelDoc(TRUE, TRUE, SomeStr("t1"), NoneStr),
      ChannelDoc(TRUE, TRUE, SomeStr(""), SomeStr("wa-token")),
      ChannelDoc(TRUE, TRUE, SomeStr("t1"), SomeStr("wa-token")) }

\* lines 189-198: router.get_channel_mapping(channel_id)
PushChannelMapping ==
    /\ pushPc = "channel"
    /\ \E doc \in ChannelDocs :
         LET mapping == get_channel_mapping(doc)
         IN IF mapping = <<>>
            THEN PushAnswer("channel") /\ UNCHANGED channel_mapping
            ELSE /\ channel_mapping' = mapping
                 /\ pushPc' = "route"
                 /\ UNCHANGED <<pushStatus, pushFailure>>
    /\ UNCHANGED <<request_json, parsed_data, response_text, access_token,
                   sent, storeVars, ragVars, routeVars, boolVars, phoneVars,
                   queryVars, webhookVars>>

\* how execute_business_routing may end: it raises, or returns None, an
\* empty text or a reply
RoutingEndings == {"raises", "none", "empty", "reply"}

\* lines 203-215: the business routing is called, an exception counts as no
\* reply, and a falsy reply skips the outbound part
PushRoute ==
    /\ pushPc = "route"
    /\ \E ending \in RoutingEndings :
         /\ response_text' = << CASE ending = "reply" -> SomeStr("Oi!")
                                  [] ending = "empty" -> SomeStr("")
                                  [] OTHER -> NoneStr >>
         /\ pushFailure' = IF ending = "raises" THEN "routing" ELSE pushFailure
         /\ pushPc' = IF ending = "reply" THEN "token" ELSE "respond"
    /\ UNCHANGED <<request_json, parsed_data, channel_mapping, access_token,
                   pushStatus, sent, storeVars, ragVars, routeVars, boolVars,
                   phoneVars, queryVars, webhookVars>>

\* lines 216-218: router.get_secret_value(credential_secret_name); a failure
\* is caught at 237 and nothing is sent
PushGetToken ==
    /\ pushPc = "token"
    /\ \E readable \in BOOLEAN :
         IF readable
         THEN /\ access_token' = SomeStr("token-of-"
                                         \o channel_mapping[1].credential_secret_name)
              /\ pushPc' = "send"
              /\ UNCHANGED pushFailure
         ELSE /\ pushFailure' = "secret"
              /\ pushPc' = "respond"
              /\ UNCHANGED access_token
    /\ UNCHANGED <<request_json, parsed_data, channel_mapping, response_text,
                   pushStatus, sent, storeVars, ragVars, routeVars, boolVars,
                   phoneVars, queryVars, webhookVars>>

\* what the platform may answer to a send
SendReplies == {"delivered", "refused", "raises"}

\* lines 221-238: without a phone_number_id nothing is sent; otherwise
\* router.send_message is called once, whatever it answers
PushSend ==
    /\ pushPc = "send"
    /\ IF ~HasPhoneNumberId(parsed_data[1])
       THEN pushFailure' = "no_phone_number_id" /\ UNCHANGED sent
       ELSE \E reply \in SendReplies :
              /\ sent' = Append(sent,
                                [phone_number |-> parsed_data[1].user_id,
                                 message_text |-> response_text[1][1],
                                 phone_number_id |->
                                     parsed_data[1].phone_number_id,
                                 access_token |-> access_token[1]])
              /\ pushFailure' = IF reply = "delivered" THEN pushFailure
                                ELSE "send"
    /\ pushPc' = "respond"
    /\ UNCHANGED <<request_json, parsed_data, channel_mapping, response_text,
                   access_token, pushStatus, storeVars, ragVars, routeVars,
                   boolVars, phoneVars, queryVars, webhookVars>>

\* lines 242-246: the push is acknowledged
PushRespond ==
    /\ pushPc = "respond"
    /\ pushPc' = "done" /\ pushStatus' = 200
    /\ UNCHANGED <<request_json, parsed_data, channel_mapping, response_text,
                   access_token, pushFailure, sent, storeVars, ragVars,
                   routeVars, boolVars, phoneVars, queryVars, webhookVars>>

-----------------------------------------------------------------------------
(* The push requests pubsub_handler is exercised on *)

TextMessage == MetaMessage(SomeStr("5511987654321"), "text", SomeStr("Oi"))

MetaPayloads ==
    { <<>>,
      <<MetaEntry(SomeStr("waba1"), <<>>)>>,
      <<MetaEntry(SomeStr("waba1"), <<MetaChange(SomeStr("pn1"), <<>>)>>)>>,
      <<MetaEntry(SomeStr("waba1"),
                  <<MetaChange(SomeStr("pn1"), <<TextMessage>>)>>)>>,
      <<MetaEntry(SomeStr("waba1"),
                  <<MetaChange(NoneStr, <<TextMessage>>)>>)>>,
      <<MetaEntry(SomeStr("waba1"),
                  <<MetaChange(SomeStr(""), <<TextMessage>>)>>)>>,
      <<MetaEntry(NoneStr, <<MetaChange(SomeStr("pn1"), <<TextMessage>>)>>)>>,
      <<MetaEntry(NoneStr, <<MetaChange(NoneStr, <<TextMessage>>)>>)>>,
      <<MetaEntry(SomeStr("waba1"),
                  <<MetaChange(SomeStr("pn1"),
                               <<MetaMessage(SomeStr("5511987654321"),
                                             "image", NoneStr)>>)>>)>>,
      <<MetaEntry(SomeStr("waba1"),
                  <<MetaChange(SomeStr("pn1"),
                               <<MetaMessage(NoneStr, "text",
                                             SomeStr("Oi"))>>)>>)>>,
      <<MetaEntry(SomeStr("waba1"),
                  <<MetaChange(SomeStr("pn1"),
                               <<MetaMessage(SomeStr("5511987654321"),
                                             "text", SomeStr(""))>>)>>)>>,
      <<MetaEntry(SomeStr("waba1"),
                  <<MetaChange(SomeStr("pn1"),
                               <<TextMessage,
                                 MetaMessage(SomeStr("5511987654321"), "text",
                                             SomeStr("Tudo bem?"))>>)>>),
        MetaEntry(SomeStr("waba2"),
                  <<MetaChange(SomeStr("pn2"), <<TextMessage>>)>>)>> }

\* message.data: absent, not decodable, or one of the payloads
MessageData ==
    {<<>>, <<[decodable |-> FALSE, entry |-> <<>>]>>}
    \cup {<<[decodable |-> TRUE, entry |-> e]>> : e \in MetaPayloads}

\* message.attributes.platform, <<>> when absent
PlatformAttributes == {NoneStr, SomeStr("WhatsApp"), SomeStr("linkedin"),
                       SomeStr("telegram")}

PushRequests ==
    {[json |-> FALSE, message |-> <<>>], [json |-> TRUE, message |-> <<>>]}
    \cup {[json |-> TRUE, message |-> <<[attributes |-> a, data |-> d]>>] :
            a \in PlatformAttributes, d \in MessageData}

InitPush ==
    /\ request_json \in PushRequests
    /\ parsed_data = <<>> /\ channel_mapping = <<>>
    /\ response_text = <<>> /\ access_token = <<>> /\ pushPc = "unpack"
    /\ pushStatus = 0 /\ pushFailure = "" /\ sent = <<>>
    /\ tenant_id = "t1" /\ tenants = <<>> /\ contacts = <<>>
    /\ RagIdle
    /\ RouteIdle
    /\ BoolIdle
    /\ PhoneIdle
    /\ QueryIdle
    /\ WebhookIdle

NextPush ==
    \/ PushUnpack
    \/ PushParsePayload
    \/ PushChannelMapping
    \/ PushRoute
    \/ PushGetToken
    \/ PushSend
    \/ PushRespond

\* the handler is one coroutine that runs to its end
SpecPush == InitPush /\ [][NextPush]_vars /\ WF_vars(NextPush)


-----------------------------------------------------------------------------
(* Properties of pubsub_handler, checked under SpecPush *)

PushAnswered == pushPc = "done"

\* the routing returned a text that is not empty
ReplyProduced == response_text # <<>> /\ Filled(response_text[1])

\* value.metadata.phone_number_id of the first change of the first entry of
\* the pushed payload, when the payload has one
PayloadPhoneNumberId ==
    IF /\ request_json.json /\ request_json.message # <<>>
       /\ request_json.message[1].data # <<>>
       /\ request_json.message[1].data[1].entry # <<>>
       /\ request_json.message[1].data[1].entry[1].changes # <<>>
    THEN request_json.message[1].data[1].entry[1].changes[1].phone_number_id
    ELSE NoneStr

\* at most one message goes out, and only with a reply and a phone_number_id
OutboundRule ==
    /\ Len(sent) <= 1
    /\ sent # <<>>
         => /\ ReplyProduced
            /\ Filled(PayloadPhoneNumberId)
            /\ sent[1].message_text = response_text[1][1]
            /\ sent[1].phone_number_id = PayloadPhoneNumberId

\* C30: pubsub_handler answers every push request, and always with HTTP 200,
\* whatever fails inside it; it sends at most one outbound message per push,
\* and only when the routing produced a non-empty reply and the payload
\* carried a phone_number_id.
C30_AlwaysAcknowledged ==
    /\ [](pushStatus \in {0, 200})
    /\ [](PushAnswered <=> pushStatus = 200)
    /\ [](OutboundRule)
    /\ <>(PushAnswered)

\* a push whose reply could not be delivered was acknowledged all the same
C30_Witness ==
    /\ PushAnswered /\ pushStatus = 200
    /\ pushFailure = "send" /\ Len(sent) = 1
    /\ Len(request_json.message[1].data[1].entry) = 2

====
